---- MODULE Spec2Model ----
(***************************************************************************)
(* Verification model of astro_calendar_personal: the time-domain search   *)
(* engine (src/utils/time_utils.py), the aspect and retrograde detectors   *)
(* (src/calculators/aspects.py, retrogrades.py) and the eclipse decision   *)
(* tables (src/calculators/eclipses.py).                                   *)
(*                                                                         *)
(* Conventions.  Instants are integers counting ticks; a tick is the       *)
(* resolution of datetime arithmetic (1 microsecond in CPython; the        *)
(* detector models use TicksPerSecond ticks to the second).  Condition     *)
(* values and angles are integers in a stated unit.  Python's              *)
(* timedelta / int and timedelta * float round to the nearest tick, ties   *)
(* to even (RoundHalfEven).                                                *)
(***************************************************************************)
EXTENDS Integers, Sequences, FiniteSets, TLC

(***************************************************************************)
(* Bounds of the model                                                     *)
(***************************************************************************)
\* instants of the stand-alone search engine model are 0..MaxT
MaxT == 4
\* condition values of the stand-alone search engine model are 0..MaxVal
MaxVal == 2
\* tolerances of the stand-alone search engine model are 0..MaxTol ticks
MaxTol == 2
\* instants of the search engine model with unimodal condition functions
\* are 0..UniMaxT
UniMaxT == 7
\* ticks of datetime resolution to the second in the detector models
\* (1 000 000 in CPython)
TicksPerSecond == 2
\* the aspect detector scans a range of ScanSteps five-minute steps
ScanSteps == 288
\* the retrograde detector scans a range of RetroDays days
RetroDays == 85
\* calculate_retrogrades is called MaxCalls times on one calculator
MaxCalls == 2
\* the classifier inputs lie within Margin angle units of a threshold
Margin == 1
\* the Moon's and the node's longitude run over NodeSteps equal steps of the
\* circle
NodeSteps == 24

\* widest bracket handed to the ingress bisection, in seconds
MaxBracket == 8

\* length of the range scanned for sign ingresses, in days
IngressDays == 3

\* largest max_retries handed to get_coordinates
MaxRetries == 3

\* longest list of events a detector returns to calculate_all_events
MaxEvents == 2

\* length of the range scanned for lunar phases and eclipses, in days
LunarDays == 40

\* length of the range scanned for nodal ingresses, in days
NodeDays == 3
\* the longitudes looked up in the houses reach MaxWraps turns of the circle
\* below 0 and above 360 degrees
MaxWraps == 1

(***************************************************************************)
(* Arithmetic helpers                                                      *)
(***************************************************************************)
Abs(x) == IF x < 0 THEN -x ELSE x

Min2(a, b) == IF a <= b THEN a ELSE b

Max2(a, b) == IF a >= b THEN a ELSE b

\* the element of a one-element set; {e(x) : x \in {v}} names the value v
\* once, however many times e uses it
Only(S) == CHOOSE x \in S : TRUE

\* n / d rounded to the nearest integer, ties to the even one (d > 0):
\* CPython's _divide_and_round, used by timedelta.__truediv__ and
\* timedelta.__mul__(float)
RoundHalfEven(n, d) ==
    LET q == n \div d
        r == n % d
    IN  IF 2 * r > d THEN q + 1
        ELSE IF 2 * r < d THEN q
        ELSE IF q % 2 = 0 THEN q ELSE q + 1

(***************************************************************************)
(* State                                                                   *)
(***************************************************************************)
VARIABLES
    \* ---- find_exact_time (one call) ----
    cond,        \* condition_func, as a table over 0..MaxT
    start0,      \* start_date as passed by the caller
    end0,        \* end_date as passed by the caller
    tolerance,   \* tolerance as passed by the caller
    start_date,  \* working bracket start
    end_date,    \* working bracket end
    best_date,   \* instant of the tracked minimum
    min_value,   \* tracked minimum
    fpc,         \* position in find_exact_time: "call","loop","refine","done"
    evaluated,   \* instants condition_func has been called with
    degenerate,  \* TRUE once condition_func was called while start = end
    \* ---- the position oracle (swe.calc_ut) ----
    lon0,        \* body -> longitude at second 0, in angle units
    rate,        \* body -> motion in angle units per second
    turn,        \* body -> second at which the body's motion reverses
    back,        \* body -> second at which it reverses again (>= turn)
    ramp,        \* body -> half-length of a reversal, in 30-second steps
    \* ---- AspectCalculator.calculate_aspects (one call) ----
    planet_names,      \* self.planets without 'Luna', in dictionary order
    asp_start,         \* start_date of the call
    asp_end,           \* end_date of the call
    pair_idx,          \* index of the pair being scanned in planet_pairs
    current_date,      \* the scan instant
    events,            \* events, in the order they were appended
    processed_aspects, \* set of <<p1, p2, aspect, instant>>
    apc,               \* "scan", "done"
    asp_result,        \* the list returned
    \* ---- RetrogradeCalculator (one instance, successive calls) ----
    ret_planets,       \* PLANETS without 'Sol' and 'Luna', in dictionary order
    ret_start,         \* start_date of the calls
    ret_end,           \* end_date of the calls
    planet_idx,        \* index of the planet being scanned
    ret_current,       \* current_date of the scan
    was_retrograde,    \* "None", TRUE or FALSE
    retro_start,       \* None, or [found |-> TRUE, date |-> instant]
    ret_events,        \* events of the running call, as appended
    processed_events,  \* self.processed_events
    rpc,               \* "scan", "done"
    ret_results,       \* the lists returned, one per finished call
    \* ---- the eclipse classifiers (one call) ----
    node_distance,     \* distance to the nearest node, in angle units
    signed_distance,   \* the same, negative for the south node
    moon_lat,          \* absolute ecliptic latitude of the Moon
    sun_lon,           \* longitude of the Sun
    moon_lon,          \* longitude of the Moon
    node_lon,          \* longitude of the true (north) node
    is_solar,          \* TRUE at a new moon, FALSE at a full moon
    epc,               \* "call", "done"
    ecl_result,        \* the pair returned: <<signed distance, type>>
    \* ---- the wraparound arithmetic (one evaluation) ----
    pos1,              \* first longitude, in whole degrees
    pos2,              \* second longitude (an hour later), in whole degrees
    offset,            \* the offset added to both longitudes
    speeds,            \* <<speed of the pair, speed of the shifted pair>>
    diffs,             \* aspect -> <<difference, difference when shifted>>
    wpc,               \* "speed", "difference", "done"
    \* ---- IngressCalculator._find_exact_ingress (one call) ----
    bis_start,         \* start_date of the bisection
    bis_end,           \* end_date of the bisection
    from_sign,         \* sign index the body is leaving
    to_sign,           \* sign index on the other side of the boundary
    crossing,          \* first instant at which the body is in to_sign
    bpc,               \* "loop", "done"
    bis_result,        \* the instant returned
    \* ---- IngressCalculator.calculate_ingresses (one call) ----
    ing_planets,       \* the planets scanned, in dictionary order
    ing_start,         \* start_date of the call
    ing_end,           \* end_date of the call
    ing_idx,           \* index of the planet being scanned
    ing_current,       \* current_date of the scan
    prev_sign,         \* None, or [found |-> TRUE, sign |-> index]
    ing_events,        \* events, in the order they were appended
    ing_samples,       \* history: the coarse sample that produced each event
    ipc,               \* "scan", "done"
    ing_result,        \* the list returned
    \* ---- AspectCalculator._get_precise_position (one call) ----
    gp_jd,             \* jd of the sample, in seconds
    gp_planet,         \* the body asked for
    oracle_fails,      \* the flag sets with which swe.calc_ut raises for the sample
    gp_calls,          \* the flag sets swe.calc_ut was called with, in order
    gp_result,         \* None, or the dictionary returned
    gpc,               \* "try", "except", "returned", "raised"
    \* ---- get_coordinates (one call) ----
    max_retries,       \* max_retries of the call
    answers,           \* what the geocoder does at its 1st, 2nd, ... call
    attempt,           \* the loop variable of line 29
    geo_calls,         \* number of calls of geocoder.geocode so far
    geo_result,        \* None while running, then what the call returned or raised
    geopc,             \* "loop", "done"
    \* ---- AstronomicalCalendar.calculate_all_events (one call) ----
    returns,           \* detector -> the list its calculate_* call returns
    self_events,       \* self.events
    detector_idx,      \* index of the next detector to be called
    mpc,               \* "extend", "done"
    \* ---- LunarPhaseCalculator and EclipseCalculator on the shared observer ----
    full_moons,        \* instants of the full moons, in days
    new_moons,         \* instants of the new moons, in days
    eclipse_at,        \* the syzygies _get_node_distance_and_type gives a type
    moon_end,          \* end_date of both calls; start_date is day 0
    observer_date,     \* observer.date of the one ephem.Observer
    lp_loop,           \* calculate_phases: "full", "new", "done"
    lp_date,           \* calculate_phases: date
    lp_next,           \* calculate_phases: next_full / next_new, None between iterations
    lp_events,         \* calculate_phases: events
    ec_loop,           \* calculate_eclipses: "solar", "lunar", "done"
    ec_date,           \* calculate_eclipses: date
    ec_next,           \* calculate_eclipses: next_new / next_full, None between iterations
    ec_events,         \* calculate_eclipses: events
    \* ---- RetrogradeCalculator._find_station_point (one call, sweep by sweep) ----
    st_planet,         \* planet_name of the call
    st_start,          \* start_date of the call
    st_end,            \* end_date of the call
    st_sweep,          \* "coarse", "refine", "final", "done"
    st_state,          \* <<best_pos, min_speed, current_date>> of the running sweep
    st_last,           \* the end bound of the running sweep
    st_interval,       \* interval of the running sweep
    st_result,         \* what the call returned
    \* ---- NodeCalculator.calculate_node_ingresses (one call, sweep by sweep) ----
    nd_start,          \* start_date of the call
    nd_end,            \* end_date of the call
    nd_current,        \* current_date of the scan
    nd_prev_sign,      \* None, or [found |-> TRUE, sign |-> index]
    nd_events,         \* events
    ndpc,              \* "scan", "hour", "minute", "done"
    nx_from,           \* _find_exact_ingress: from_sign
    nx_to,             \* _find_exact_ingress: to_sign
    nx_current,        \* _find_exact_ingress: current_date
    nx_end,            \* _find_exact_ingress: end bound of the running sweep
    nx_best,           \* _find_exact_ingress: best_pos, None or a position
    nx_min,            \* _find_exact_ingress: min_distance
    \* ---- the house lookups (one longitude, both lookups) ----
    house_cusps,       \* houses: house number -> cusp longitude, in whole degrees
    house_lon,         \* the longitude looked up, in whole degrees
    house_out          \* <<>>, then what each lookup returned, in call order

fetVars == <<cond, start0, end0, tolerance, start_date, end_date, best_date,
             min_value, fpc, evaluated, degenerate>>

oracleVars == <<lon0, rate, turn, back, ramp>>

aspVars == <<planet_names, asp_start, asp_end, pair_idx, current_date, events,
             processed_aspects, apc, asp_result>>

retVars == <<ret_planets, ret_start, ret_end, planet_idx, ret_current,
             was_retrograde, retro_start, ret_events, processed_events, rpc,
             ret_results>>

eclVars == <<node_distance, signed_distance, moon_lat, sun_lon, moon_lon,
             node_lon, is_solar, epc, ecl_result>>

wrapVars == <<pos1, pos2, offset, speeds, diffs, wpc>>

bisVars == <<bis_start, bis_end, from_sign, to_sign, crossing, bpc, bis_result>>

ingVars == <<ing_planets, ing_start, ing_end, ing_idx, ing_current, prev_sign, ing_events, ing_samples, ipc, ing_result>>

gpVars == <<gp_jd, gp_planet, oracle_fails, gp_calls, gp_result, gpc>>

geoVars == <<max_retries, answers, attempt, geo_calls, geo_result, geopc>>

mainVars == <<returns, self_events, detector_idx, mpc>>

moonVars == <<full_moons, new_moons, eclipse_at, moon_end, observer_date, lp_loop, lp_date, lp_next, lp_events, ec_loop, ec_date, ec_next, ec_events>>

stVars == <<st_planet, st_start, st_end, st_sweep, st_state, st_last, st_interval, st_result>>

ndVars == <<nd_start, nd_end, nd_current, nd_prev_sign, nd_events, ndpc, nx_from, nx_to, nx_current, nx_end, nx_best, nx_min>>

houseVars == <<house_cusps, house_lon, house_out>>

\* the parts added after the eclipse classifiers
extVars == <<wrapVars, bisVars, ingVars, gpVars, geoVars, mainVars, moonVars, stVars, ndVars, houseVars>>

vars == <<fetVars, oracleVars, aspVars, retVars, eclVars, extVars>>

\* what each part of the program leaves alone
notFet == <<oracleVars, aspVars, retVars, eclVars, extVars>>

notAsp == <<fetVars, retVars, eclVars, extVars>>

notRet == <<fetVars, aspVars, eclVars, extVars>>

notEcl == <<fetVars, oracleVars, aspVars, retVars, extVars>>

notWrap == <<fetVars, oracleVars, aspVars, retVars, eclVars, bisVars, ingVars, gpVars, geoVars, mainVars, moonVars, stVars, ndVars, houseVars>>

notBis == <<fetVars, oracleVars, aspVars, retVars, eclVars, wrapVars, ingVars, gpVars, geoVars, mainVars, moonVars, stVars, ndVars, houseVars>>

notIng == <<fetVars, aspVars, retVars, eclVars, wrapVars, bisVars, gpVars, geoVars, mainVars, moonVars, stVars, ndVars, houseVars>>

notGp == <<fetVars, aspVars, retVars, eclVars, wrapVars, bisVars, ingVars, geoVars, mainVars, moonVars, stVars, ndVars, houseVars>>

notGeo == <<fetVars, oracleVars, aspVars, retVars, eclVars, wrapVars, bisVars, ingVars, gpVars, mainVars, moonVars, stVars, ndVars, houseVars>>

notMain == <<fetVars, oracleVars, aspVars, retVars, eclVars, wrapVars, bisVars, ingVars, gpVars, geoVars, moonVars, stVars, ndVars, houseVars>>

notMoon == <<fetVars, oracleVars, aspVars, retVars, eclVars, wrapVars, bisVars, ingVars, gpVars, geoVars, mainVars, stVars, ndVars, houseVars>>

notSt == <<fetVars, aspVars, retVars, eclVars, wrapVars, bisVars, ingVars, gpVars, geoVars, mainVars, moonVars, ndVars, houseVars>>

notNd == <<fetVars, aspVars, retVars, eclVars, wrapVars, bisVars, ingVars, gpVars, geoVars, mainVars, moonVars, stVars, houseVars>>

notHouse == <<fetVars, oracleVars, aspVars, retVars, eclVars, wrapVars, bisVars, ingVars, gpVars, geoVars, mainVars, moonVars, stVars, ndVars>>

\* the parts of the program a specification does not run
FETIdle ==
    /\ cond = <<0>>
    /\ start0 = 0 /\ end0 = 0 /\ tolerance = 0
    /\ start_date = 0 /\ end_date = 0 /\ best_date = 0 /\ min_value = 0
    /\ fpc = "idle"
    /\ evaluated = {}
    /\ degenerate = FALSE

OracleIdle ==
    lon0 = <<>> /\ rate = <<>> /\ turn = <<>> /\ back = <<>> /\ ramp = <<>>

AspIdle ==
    /\ planet_names = <<>>
    /\ asp_start = 0 /\ asp_end = 0
    /\ pair_idx = 0 /\ current_date = 0
    /\ events = <<>>
    /\ processed_aspects = {}
    /\ apc = "idle"
    /\ asp_result = <<>>

RetIdle ==
    /\ ret_planets = <<>>
    /\ ret_start = 0 /\ ret_end = 0
    /\ planet_idx = 0 /\ ret_current = 0
    /\ was_retrograde = "None"
    /\ retro_start = [found |-> FALSE]
    /\ ret_events = <<>>
    /\ processed_events = {}
    /\ rpc = "idle"
    /\ ret_results = <<>>

EclIdle ==
    /\ node_distance = 0 /\ signed_distance = 0 /\ moon_lat = 0
    /\ sun_lon = 0 /\ moon_lon = 0 /\ node_lon = 0
    /\ is_solar = FALSE
    /\ epc = "idle"
    /\ ecl_result = <<>>

WrapIdle ==
    /\ pos1 = 0 /\ pos2 = 0 /\ offset = 0
    /\ speeds = <<>> /\ diffs = <<>>
    /\ wpc = "idle"

BisIdle ==
    /\ bis_start = 0 /\ bis_end = 0
    /\ from_sign = 0 /\ to_sign = 0 /\ crossing = 0
    /\ bpc = "idle"
    /\ bis_result = [found |-> FALSE]

IngIdle ==
    /\ ing_planets = <<>>
    /\ ing_start = 0 /\ ing_end = 0
    /\ ing_idx = 0 /\ ing_current = 0
    /\ prev_sign = [found |-> FALSE]
    /\ ing_events = <<>> /\ ing_samples = <<>>
    /\ ipc = "idle"
    /\ ing_result = <<>>

GpIdle ==
    /\ gp_jd = 0 /\ gp_planet = ""
    /\ oracle_fails = {}
    /\ gp_calls = <<>>
    /\ gp_result = [found |-> FALSE]
    /\ gpc = "idle"

GeoIdle ==
    /\ max_retries = 0 /\ answers = <<>>
    /\ attempt = 0 /\ geo_calls = 0
    /\ geo_result = [found |-> FALSE]
    /\ geopc = "idle"

MainIdle ==
    /\ returns = <<>>
    /\ self_events = <<>>
    /\ detector_idx = 0
    /\ mpc = "idle"

MoonIdle ==
    /\ full_moons = {} /\ new_moons = {} /\ eclipse_at = {}
    /\ moon_end = 0 /\ observer_date = 0
    /\ lp_loop = "idle" /\ lp_date = 0 /\ lp_next = [found |-> FALSE]
    /\ lp_events = <<>>
    /\ ec_loop = "idle" /\ ec_date = 0 /\ ec_next = [found |-> FALSE]
    /\ ec_events = <<>>

StIdle ==
    /\ st_planet = "" /\ st_start = 0 /\ st_end = 0
    /\ st_sweep = "idle"
    /\ st_state = <<>> /\ st_last = 0 /\ st_interval = 0
    /\ st_result = [found |-> FALSE]

NdIdle ==
    /\ nd_start = 0 /\ nd_end = 0 /\ nd_current = 0
    /\ nd_prev_sign = [found |-> FALSE]
    /\ nd_events = <<>>
    /\ ndpc = "idle"
    /\ nx_from = 0 /\ nx_to = 0 /\ nx_current = 0 /\ nx_end = 0
    /\ nx_best = [found |-> FALSE] /\ nx_min = 0

HouseIdle ==
    /\ house_cusps = <<>> /\ house_lon = 0 /\ house_out = <<>>

ExtIdle == WrapIdle /\ BisIdle /\ IngIdle /\ GpIdle /\ GeoIdle /\ MainIdle /\ MoonIdle /\ StIdle /\ NdIdle /\ HouseIdle

(***************************************************************************)
(* Units of the detector models                                            *)
(***************************************************************************)
\* angles are integers counting 1/864000 degree, so that 0.1 degree per day
\* is one unit per second
UnitsPerDegree == 10 * 86400

Circle == 360 * UnitsPerDegree

Seconds(n) == n * TicksPerSecond

Minutes(n) == Seconds(60 * n)

Hours(n) == Seconds(3600 * n)

Days(n) == Seconds(86400 * n)

\* Python's None, for a result that is otherwise a record
None == [found |-> FALSE]

(***************************************************************************)
(* The position oracle: swe.calc_ut(jd, planet_id, flags)[0][0].  It is    *)
(* external; the model takes bodies in uniform motion that may reverse at  *)
(* second turn (a station) and reverse again at second back, with the      *)
(* longitude normalized to [0, 360).  With ramp = 0 a reversal is          *)
(* instantaneous; with ramp = R the speed changes linearly from rate to    *)
(* -rate over the 2 * R thirty-second steps around the reversal.           *)
(***************************************************************************)
\* julian_day(date), src/utils/time_utils.py:5-8: built from hour, minute
\* and second only, so the sub-second part of the instant is dropped
JulianSecond(t) == t \div TicksPerSecond

\* what a smooth reversal at second at takes off the distance covered by
\* an instantaneous one: rate * (R - |x|)^2 / (2 R) within R steps of it
Rounding(b, sec, at) ==
    LET x == Abs(sec - at) \div 30
        R == ramp[b]
    IN  IF R = 0 \/ x >= R THEN 0
        ELSE (30 * rate[b] * (R - x) * (R - x)) \div (2 * R)

Position(b, sec) ==
    LET forward == Min2(sec, turn[b]) + Max2(sec - back[b], 0)
        backward == Min2(Max2(sec, turn[b]), back[b]) - turn[b]
    IN  (lon0[b] + rate[b] * forward - rate[b] * backward
             - Rounding(b, sec, turn[b]) + Rounding(b, sec, back[b]))
            % Circle

(***************************************************************************)
(* AspectCalculator helpers, src/calculators/aspects.py:15-56              *)
(***************************************************************************)
\* _normalize_angle (lines 30-31)
NormalizeAngle(angle) == angle % Circle

\* _calculate_aspect_difference (lines 33-41)
Fold(diff) == IF diff > 180 * UnitsPerDegree THEN Circle - diff ELSE diff

CalculateAspectDifference(lon1, lon2, aspect_angle) ==
    Abs(Fold(Abs(NormalizeAngle(lon1) - NormalizeAngle(lon2))) - aspect_angle)

\* aspect_condition (lines 108-116); f carries p1, p2 and the aspect angle
AspectCondition(f, t) ==
    LET jd == JulianSecond(t)
    IN  CalculateAspectDifference(Position(f.p1, jd), Position(f.p2, jd),
                                  f.angle)

(***************************************************************************)
(* find_exact_time, src/utils/time_utils.py:10-102                         *)
(***************************************************************************)
\* a condition function is a record: kind "table" with the table tab over
\* an initial segment of the instants, continued periodically (the function
\* is total on datetimes)
TableFunc(tab) == [kind |-> "table", tab |-> tab]

TableAt(f, t) == f.tab[t % Cardinality(DOMAIN f.tab)]

\* condition_func(t)
CondAt(f, t) ==
    IF f.kind = "table" THEN TableAt(f, t) ELSE AspectCondition(f, t)

\* third = span / 3  (line 35)
ThirdUp(span) == (span + 2) \div 3
Third(span) == RoundHalfEven(span, 3)

\* mid_date = start_date + (end_date - start_date) / 2  (line 84)
MidDateStart(s, e) == s

MidDate(s, e) == s + RoundHalfEven(e - s, 2)

\* alpha = 0.5 * (start_val - end_val) / denom, as the fraction num/den with
\* den > 0  (lines 92-94)
AlphaNum(sv, mv, ev) ==
    IF sv - 2 * mv + ev > 0 THEN sv - ev ELSE ev - sv

AlphaDen(sv, mv, ev) == 2 * Abs(sv - 2 * mv + ev)

\* 0 < alpha < 1  (line 95)
AlphaInside(sv, mv, ev) ==
    /\ AlphaNum(sv, mv, ev) > 0
    /\ AlphaNum(sv, mv, ev) < AlphaDen(sv, mv, ev)

\* interp_date = start_date + alpha * (end_date - start_date)  (line 96)
InterpDate(s, e, sv, mv, ev) ==
    s + RoundHalfEven(AlphaNum(sv, mv, ev) * (e - s), AlphaDen(sv, mv, ev))

\* the test "if val < min_value" left out
OfferLast(best, t, v) == <<t, v>>

\* a sample offered to the tracked minimum: "if val < min_value" (strict)
\* best is the pair <<best_date, min_value>>
Offer(best, t, v) == IF v < best[2] THEN <<t, v>> ELSE best

\* lines 34-69: one iteration of the narrowing loop on bracket <<s, e>>;
\* the new bracket
NarrowNoEndpoints(f, s, e) ==
    LET third == Third(e - s)
        point1 == s + third
        point2 == s + 2 * third
        val1 == CondAt(f, point1)
        val2 == CondAt(f, point2)
    IN  IF val1 < val2 THEN <<s, point1>>
        ELSE IF val2 < val1 THEN <<point2, e>>
        ELSE <<point1, point2>>
Narrow(f, s, e) ==
    LET third == Third(e - s)
        point1 == s + third
        point2 == s + 2 * third
        val1 == CondAt(f, point1)
        val2 == CondAt(f, point2)
        start_val == CondAt(f, s)
        end_val == CondAt(f, e)
    IN  IF val1 < val2
        THEN IF val1 < start_val THEN <<s, point2>> ELSE <<s, point1>>
        ELSE IF val2 < val1
             THEN IF val2 < end_val THEN <<point1, e>> ELSE <<point2, e>>
             ELSE <<point1, point2>>

\* lines 44-49: the tracked minimum after one iteration on bracket <<s, e>>
NarrowBest(f, best, s, e) ==
    LET third == Third(e - s)
        point1 == s + third
        point2 == s + 2 * third
    IN  Offer(Offer(best, point1, CondAt(f, point1)),
              point2, CondAt(f, point2))

\* lines 72-100: the final refinement on bracket <<s, e>>
RefineBest(f, best, s, e) ==
    IF s = e THEN best
    ELSE
    LET start_val == CondAt(f, s)
        end_val == CondAt(f, e)
        b1 == Offer(Offer(best, s, start_val), e, end_val)
        mid_date == MidDate(s, e)
        mid_val == CondAt(f, mid_date)
    IN  IF mid_val < b1[2]
        THEN LET b2 == <<mid_date, mid_val>>
                 denom == start_val - 2 * mid_val + end_val
             IN  IF denom # 0 /\ AlphaInside(start_val, mid_val, end_val)
                 THEN LET interp_date ==
                              InterpDate(s, e, start_val, mid_val, end_val)
                      IN  Offer(b2, interp_date, CondAt(f, interp_date))
                 ELSE b2
        ELSE b1

\* the instants the final refinement calls condition_func with
RefineEvaluated(f, best, s, e) ==
    IF s = e THEN {}
    ELSE
    LET start_val == CondAt(f, s)
        end_val == CondAt(f, e)
        b1 == Offer(Offer(best, s, start_val), e, end_val)
        mid_date == MidDate(s, e)
        mid_val == CondAt(f, mid_date)
        denom == start_val - 2 * mid_val + end_val
    IN  {s, e, mid_date} \cup
        IF mid_val < b1[2] /\ denom # 0
               /\ AlphaInside(start_val, mid_val, end_val)
        THEN {InterpDate(s, e, start_val, mid_val, end_val)}
        ELSE {}

\* lines 34-69: one iteration of the narrowing loop on the state
\* st = <<best, start_date, end_date>>
NarrowStep(f, st) ==
    Only({<<NarrowBest(f, st[1], st[2], st[3]), br[1], br[2]>> :
             br \in {Narrow(f, st[2], st[3])}})

\* lines 32-69: the narrowing loop run to its exit
RECURSIVE NarrowLoop(_, _, _)
NarrowLoop(f, st, tol) ==
    IF st[3] - st[2] > tol THEN NarrowLoop(f, NarrowStep(f, st), tol) ELSE st

\* lines 28-102: the whole call; <<best_date, min_value>>
FindExactTime(f, s, e, tol) ==
    Only({RefineBest(f, st[1], st[2], st[3]) :
             st \in {NarrowLoop(f, <<<<s, CondAt(f, s)>>, s, e>>, tol)}})

\* the caller's arguments: a bracket start <= end, a condition function and
\* a tolerance
FETInit ==
    /\ cond \in [0..MaxT -> 0..MaxVal]
    /\ start0 \in 0..MaxT
    /\ end0 \in start0..MaxT
    /\ tolerance \in 0..MaxTol
    /\ start_date = start0
    /\ end_date = end0
    /\ best_date = start0
    /\ min_value = 0
    /\ fpc = "call"
    /\ evaluated = {}
    /\ degenerate = FALSE

\* lines 28-29
FETEnter ==
    /\ fpc = "call"
    /\ best_date' = start_date
    /\ min_value' = CondAt(TableFunc(cond), start_date)
    /\ evaluated' = {start_date}
    /\ degenerate' = (start_date = end_date)
    /\ fpc' = "loop"
    /\ UNCHANGED <<cond, start0, end0, tolerance, start_date, end_date>>
    /\ UNCHANGED notFet

\* lines 32-69, one iteration
FETNarrow ==
    /\ fpc = "loop"
    /\ end_date - start_date > tolerance
    /\ LET nb == NarrowBest(TableFunc(cond), <<best_date, min_value>>,
                            start_date, end_date)
           br == Narrow(TableFunc(cond), start_date, end_date)
           third == Third(end_date - start_date)
       IN  /\ best_date' = nb[1]
           /\ min_value' = nb[2]
           /\ start_date' = br[1]
           /\ end_date' = br[2]
           /\ evaluated' = evaluated \cup
                  {start_date + third, start_date + 2 * third,
                   start_date, end_date}
           /\ degenerate' = (degenerate \/ start_date = end_date)
    /\ UNCHANGED <<cond, start0, end0, tolerance, fpc>>
    /\ UNCHANGED notFet

\* lines 32 (loop exit) and 71-102
FETRefine ==
    /\ fpc = "loop"
    /\ ~(end_date - start_date > tolerance)
    /\ LET rb == RefineBest(TableFunc(cond), <<best_date, min_value>>,
                            start_date, end_date)
       IN  /\ best_date' = rb[1]
           /\ min_value' = rb[2]
    /\ evaluated' = evaluated \cup
           RefineEvaluated(TableFunc(cond), <<best_date, min_value>>,
                           start_date, end_date)
    /\ fpc' = "done"
    /\ UNCHANGED <<cond, start0, end0, tolerance, start_date, end_date,
                   degenerate>>
    /\ UNCHANGED notFet

FETNext == FETEnter \/ FETNarrow \/ FETRefine

InitFET == FETInit /\ OracleIdle /\ AspIdle /\ RetIdle /\ EclIdle /\ ExtIdle

SpecFET == InitFET /\ [][FETNext]_vars

\* a strictly unimodal condition function: 0 at c, and from each instant to
\* its neighbour farther from c the value grows by that instant's step
RECURSIVE UnimodalValue(_, _, _)
UnimodalValue(steps, c, t) ==
    IF t = c THEN 0
    ELSE IF t < c THEN steps[t] + UnimodalValue(steps, c, t + 1)
    ELSE steps[t - 1] + UnimodalValue(steps, c, t - 1)

\* the caller's arguments when condition_func has a single minimum
UniInit ==
    /\ \E c \in 0..UniMaxT, steps \in [0..(UniMaxT - 1) -> {1, 2}] :
           cond = [t \in 0..UniMaxT |-> UnimodalValue(steps, c, t)]
    /\ start0 \in 0..UniMaxT
    /\ end0 \in start0..UniMaxT
    /\ tolerance \in 0..MaxTol
    /\ start_date = start0
    /\ end_date = end0
    /\ best_date = start0
    /\ min_value = 0
    /\ fpc = "call"
    /\ evaluated = {}
    /\ degenerate = FALSE

InitUni == UniInit /\ OracleIdle /\ AspIdle /\ RetIdle /\ EclIdle /\ ExtIdle

SpecUni == InitUni /\ [][FETNext]_vars

(***************************************************************************)
(* Claims about find_exact_time                                            *)
(***************************************************************************)
\* C1: every instant find_exact_time evaluates (the ternary sample points,
\* the final midpoint, the interpolation point) and the instant it returns
\* lie inside the caller's bracket: start0 <= instant <= end0.
C1_BracketInvariant ==
    fpc # "call" =>
        /\ start0 <= best_date /\ best_date <= end0
        /\ \A t \in evaluated : start0 <= t /\ t <= end0

\* C1 witness: a call that narrowed its bracket and returned the caller's
\* end_date itself
C1_Witness ==
    /\ fpc = "done"
    /\ end0 - start0 > tolerance
    /\ end_date - start_date < end0 - start0
    /\ best_date = end0

\* condition_func strictly decreases on start0..c and strictly increases on
\* c..end0
Unimodal(c) ==
    /\ c \in start0..end0
    /\ \A t \in start0..(c - 1) : cond[t] > cond[t + 1]
    /\ \A t \in c..(end0 - 1) : cond[t] < cond[t + 1]

\* the three parts of C2 for a minimizer c, as a state predicate
ConvergesTo(c) ==
    /\ start_date <= c /\ c <= end_date
    /\ fpc = "done" =>
           /\ end_date - start_date <= tolerance
           /\ Abs(best_date - c) <= tolerance

\* C2 as stated (any tolerance): for a strictly unimodal condition function
\* the working bracket always contains the minimizer, the loop ends with a
\* bracket no wider than the tolerance and the result is within the
\* tolerance of the minimizer.
C2_AnyTolerance ==
    \A c \in DOMAIN cond : (fpc # "call" /\ Unimodal(c)) => ConvergesTo(c)

\* C2 amended: the same for a tolerance of at least two ticks, where
\* moreover every narrowing step makes the working bracket strictly
\* narrower.
C2_Converges ==
    /\ [](\A c \in DOMAIN cond :
            (fpc # "call" /\ tolerance >= 2 /\ Unimodal(c))
                => ConvergesTo(c))
    /\ [][(fpc = "loop" /\ fpc' = "loop" /\ tolerance >= 2)
            => (end_date' - start_date' < end_date - start_date)]_vars

\* C2 witness: a unimodal function with an interior minimizer, a bracket
\* that took two narrowing steps, the search finished
C2_Witness ==
    /\ fpc = "done"
    /\ tolerance >= 2
    /\ \E c \in (start0 + 1)..(end0 - 1) : Unimodal(c)
    /\ start_date > start0 /\ end_date < end0

\* C3: when several evaluated instants share the smallest value found, the
\* instant returned is the earliest of them in time.
C3_LeftBias ==
    fpc = "done" =>
        \A t \in evaluated :
            CondAt(TableFunc(cond), t) = min_value => best_date <= t

(***************************************************************************)
(* AspectCalculator, src/calculators/aspects.py                            *)
(***************************************************************************)
\* AstronomicalConstants.ASPECTS in dictionary order
\* (src/core/constants.py:149-175); every orb_factor is 1.0
AspectNames ==
    <<"Conjuncion", "Sextil", "Cuadratura", "Trigono", "Oposicion">>

AspectAngle(aspect_name) ==
    CASE aspect_name = "Conjuncion" -> 0
      [] aspect_name = "Sextil" -> 60 * UnitsPerDegree
      [] aspect_name = "Cuadratura" -> 90 * UnitsPerDegree
      [] aspect_name = "Trigono" -> 120 * UnitsPerDegree
      [] aspect_name = "Oposicion" -> 180 * UnitsPerDegree

\* _get_planet_speed (lines 18-22) over PLANETS_INFO[..]['mean_speed']
\* (src/core/constants.py:54-135), in thousandths of a degree per day
PlanetSpeed(planet_name) ==
    CASE planet_name = "Sol" -> 985
      [] planet_name = "Mercurio" -> Max2(Abs(-1400), Abs(2200))
      [] planet_name = "Venus" -> Max2(Abs(-600), Abs(1200))
      [] planet_name = "Marte" -> Max2(Abs(-400), Abs(800))
      [] planet_name = "Jupiter" -> Max2(Abs(-100), Abs(200))
      [] planet_name = "Saturno" -> Max2(Abs(-50), Abs(100))
      [] planet_name = "Urano" -> Max2(Abs(-40), Abs(40))
      [] planet_name = "Neptuno" -> Max2(Abs(-20), Abs(20))
      [] planet_name = "Pluton" -> Max2(Abs(-10), Abs(10))

\* _get_aspect_orb (lines 24-28): every orb_major is 0.1 degree and every
\* orb_factor 1.0
AspectOrb(aspect_name, p1_name, p2_name) ==
    Max2(UnitsPerDegree \div 10, UnitsPerDegree \div 10)

\* the search window of a pair (lines 92-104), in ticks
SearchWindow(p1_name, p2_name) ==
    LET velocidad_total == PlanetSpeed(p1_name) + PlanetSpeed(p2_name)
    IN  IF velocidad_total > 10000 THEN Hours(6)
        ELSE IF velocidad_total > 2000 THEN Hours(12)
        ELSE IF velocidad_total > 500 THEN Days(1)
        ELSE Days(2)

\* _is_aspect_applying (lines 58-80): the difference one minute after jd
\* against the difference at jd
IsAspectApplying(jd, p1_name, p2_name, aspect_angle) ==
    LET curr_diff ==
            CalculateAspectDifference(Position(p1_name, jd),
                                      Position(p2_name, jd), aspect_angle)
        future_jd == jd + 60
        future_diff ==
            CalculateAspectDifference(Position(p1_name, future_jd),
                                      Position(p2_name, future_jd),
                                      aspect_angle)
    IN  future_diff < curr_diff

\* _find_exact_aspect_time (lines 82-145): None, or date, difference and
\* is_applying of the exact aspect ("if not exact_date" never holds: a
\* datetime is always true)
ExactAspect(found, p1_name, p2_name, aspect_name) ==
    IF found[2] > AspectOrb(aspect_name, p1_name, p2_name)
    THEN None
    ELSE [found |-> TRUE,
          date |-> found[1],
          difference |-> found[2],
          is_applying |->
              IsAspectApplying(JulianSecond(found[1]), p1_name, p2_name,
                               AspectAngle(aspect_name))]

FindExactAspectTime(from_date, p1_name, p2_name, aspect_name) ==
    Only({ExactAspect(found, p1_name, p2_name, aspect_name) :
             found \in
                 {FindExactTime([kind |-> "aspect", p1 |-> p1_name,
                                 p2 |-> p2_name,
                                 angle |-> AspectAngle(aspect_name)],
                                from_date,
                                from_date + SearchWindow(p1_name, p2_name),
                                Seconds(1))}})

\* planet_pairs (lines 155-158)
PlanetPairs(names) ==
    LET n == Len(names)
        PairAt(k) ==
            CHOOSE ij \in (1..n) \X (1..n) :
                /\ ij[1] < ij[2]
                /\ k = Cardinality({xy \in (1..n) \X (1..n) :
                         /\ xy[1] < xy[2]
                         /\ \/ xy[1] < ij[1]
                            \/ xy[1] = ij[1] /\ xy[2] <= ij[2]})
    IN  [k \in 1..((n * (n - 1)) \div 2) |->
            <<names[PairAt(k)[1]], names[PairAt(k)[2]]>>]

\* lines 185-193: no processed aspect of the same pair and type lies less
\* than 12 hours (43200 s) from aspect_time
IsNewAlways(processed, p1_name, p2_name, aspect_name, aspect_time) == TRUE
IsNewAspect(processed, p1_name, p2_name, aspect_name, aspect_time) ==
    \A t \in processed :
        (t[1] = p1_name /\ t[2] = p2_name /\ t[3] = aspect_name)
            => ~(Abs(aspect_time - t[4]) < Seconds(43200))

\* lines 165-217: the body of "for aspect_name in self.aspects" for one
\* aspect at scan instant now; st is <<events, processed_aspects>>
RecordAspect(st, exact_info, p1_name, p2_name, aspect_name) ==
    IF exact_info.found
       /\ IsNewAspect(st[2], p1_name, p2_name, aspect_name, exact_info.date)
    THEN <<Append(st[1],
                  [fecha_utc |-> exact_info.date,
                   planeta1 |-> p1_name,
                   planeta2 |-> p2_name,
                   tipo_aspecto |-> aspect_name,
                   orbe |-> exact_info.difference,
                   es_aplicativo |-> exact_info.is_applying]),
           st[2] \cup {<<p1_name, p2_name, aspect_name, exact_info.date>>}>>
    ELSE st

ScanAspect(st, now, p1_name, p2_name, aspect_name) ==
    IF CalculateAspectDifference(Position(p1_name, JulianSecond(now)),
                                 Position(p2_name, JulianSecond(now)),
                                 AspectAngle(aspect_name))
           <= AspectOrb(aspect_name, p1_name, p2_name)
    THEN Only({RecordAspect(st, exact_info, p1_name, p2_name, aspect_name) :
                  exact_info \in {FindExactAspectTime(now, p1_name, p2_name,
                                                      aspect_name)}})
    ELSE st

\* lines 164-217: the aspects from the i-th on, in order
RECURSIVE ScanAspects(_, _, _, _, _)
ScanAspects(st, now, p1_name, p2_name, i) ==
    IF i > Len(AspectNames) THEN st
    ELSE ScanAspects(ScanAspect(st, now, p1_name, p2_name, AspectNames[i]),
                     now, p1_name, p2_name, i + 1)

\* sorted(events, key=lambda x: x.fecha_utc) (line 222): a stable sort
RECURSIVE SortByDate(_)
SortByDate(evs) ==
    IF evs = <<>> THEN <<>>
    ELSE LET i == CHOOSE k \in 1..Len(evs) :
                      /\ \A j \in 1..Len(evs) :
                             evs[k].fecha_utc <= evs[j].fecha_utc
                      /\ \A j \in 1..(k - 1) :
                             evs[j].fecha_utc > evs[k].fecha_utc
         IN  <<evs[i]>> \o
             SortByDate(SubSeq(evs, 1, i - 1) \o SubSeq(evs, i + 1, Len(evs)))

\* the planets of a model run: two of the planets of
\* AstronomicalConstants.PLANETS, giving a 12-hour, a 1-day and a 2-day
\* search window
PlanetLists ==
    {<<"Mercurio", "Marte">>, <<"Marte", "Saturno">>,
     <<"Jupiter", "Saturno">>}

\* the first planet starts at 0 or at 300 degrees and moves 1 degree per
\* day; it keeps its direction, or reverses after 18 hours
FirstLonChoices == {0, 300 * UnitsPerDegree}

NoTurn == 1000 * 86400

TurnChoices == {NoTurn, 18 * 3600}

\* the second planet starts 90.025, 90.2 or 90.55 degrees ahead of the first
\* and moves 0.5, 0.9 or 1 degree per day (from 90.55 degrees at 0.5 degree
\* per day the square is exact 26.4 hours after the start, and the pair is
\* within orb from 21.6 hours on)
SeparationChoices ==
    {90 * UnitsPerDegree + UnitsPerDegree \div 40,
     90 * UnitsPerDegree + UnitsPerDegree \div 5,
     90 * UnitsPerDegree + (11 * UnitsPerDegree) \div 20}

RateChoices == {5, 9, 10}

\* a call calculate_aspects(start_date, end_date) on a fresh calculator
AspInit ==
    /\ planet_names \in PlanetLists
    /\ \E l \in FirstLonChoices, d \in SeparationChoices :
           lon0 = [b \in {planet_names[1], planet_names[2]} |->
                      IF b = planet_names[1] THEN l ELSE (l + d) % Circle]
    /\ \E r \in RateChoices :
           rate = [b \in {planet_names[1], planet_names[2]} |->
                      IF b = planet_names[1] THEN 10 ELSE r]
    /\ \E u \in TurnChoices :
           turn = [b \in {planet_names[1], planet_names[2]} |->
                      IF b = planet_names[1] THEN u ELSE NoTurn]
    /\ back = [b \in {planet_names[1], planet_names[2]} |-> NoTurn]
    /\ ramp = [b \in {planet_names[1], planet_names[2]} |-> 0]
    /\ asp_start = 0
    /\ asp_end = Minutes(5 * ScanSteps)
    /\ pair_idx = 1
    /\ current_date = asp_start
    /\ events = <<>>
    /\ processed_aspects = {}
    /\ apc = "scan"
    /\ asp_result = <<>>

\* lines 163-220: one iteration of "while current_date < end_date"
AspScan ==
    /\ apc = "scan"
    /\ pair_idx <= Len(PlanetPairs(planet_names))
    /\ current_date < asp_end
    /\ \E pair \in {PlanetPairs(planet_names)[pair_idx]} :
       \E st \in {ScanAspects(<<events, processed_aspects>>, current_date,
                              pair[1], pair[2], 1)} :
           /\ events' = st[1]
           /\ processed_aspects' = st[2]
    /\ current_date' = current_date + Minutes(5)
    /\ UNCHANGED <<planet_names, asp_start, asp_end, pair_idx, apc,
                   asp_result>>
    /\ UNCHANGED <<oracleVars, notAsp>>

\* lines 160-163: the scan of a pair is over, on to the next pair
AspNextPair ==
    /\ apc = "scan"
    /\ pair_idx <= Len(PlanetPairs(planet_names))
    /\ ~(current_date < asp_end)
    /\ pair_idx' = pair_idx + 1
    /\ current_date' = asp_start
    /\ UNCHANGED <<planet_names, asp_start, asp_end, events,
                   processed_aspects, apc, asp_result>>
    /\ UNCHANGED <<oracleVars, notAsp>>

\* line 222
AspReturn ==
    /\ apc = "scan"
    /\ pair_idx > Len(PlanetPairs(planet_names))
    /\ asp_result' = SortByDate(events)
    /\ apc' = "done"
    /\ UNCHANGED <<planet_names, asp_start, asp_end, pair_idx, current_date,
                   events, processed_aspects>>
    /\ UNCHANGED <<oracleVars, notAsp>>

AspNext == AspScan \/ AspNextPair \/ AspReturn

InitAspects == AspInit /\ FETIdle /\ RetIdle /\ EclIdle /\ ExtIdle

SpecAspects == InitAspects /\ [][AspNext]_vars

(***************************************************************************)
(* Claims about the aspect detector                                        *)
(***************************************************************************)
SameAspect(e1, e2) ==
    /\ e1.planeta1 = e2.planeta1
    /\ e1.planeta2 = e2.planeta2
    /\ e1.tipo_aspecto = e2.tipo_aspecto

\* C4: at every point of a call, and in the list it returns, two events of
\* the same body pair and aspect type are never less than 12 hours apart.
C4_Dedup ==
    /\ \A i, j \in 1..Len(events) :
           (i # j /\ SameAspect(events[i], events[j]))
               => Abs(events[i].fecha_utc - events[j].fecha_utc)
                      >= Hours(12)
    /\ \A i, j \in 1..Len(asp_result) :
           (i # j /\ SameAspect(asp_result[i], asp_result[j]))
               => Abs(asp_result[i].fecha_utc - asp_result[j].fecha_utc)
                      >= Hours(12)

\* C4 witness: the call returned two events of one pair and aspect that
\* were found in decreasing order of time
C4_Witness ==
    /\ apc = "done"
    /\ \E i, j \in 1..Len(events) :
           /\ i < j
           /\ SameAspect(events[i], events[j])
           /\ events[i].fecha_utc > events[j].fecha_utc

\* the scan samples (indices of five-minute steps) of a call at which the
\* pair is within orb of the aspect
DiffAtSample(n, p1_name, p2_name, aspect_name) ==
    CalculateAspectDifference(Position(p1_name, 300 * n),
                              Position(p2_name, 300 * n),
                              AspectAngle(aspect_name))

InOrbSamples(p1_name, p2_name, aspect_name) ==
    {n \in 0..(ScanSteps - 1) :
        DiffAtSample(n, p1_name, p2_name, aspect_name)
            <= AspectOrb(aspect_name, p1_name, p2_name)}

\* the within-orb samples form one contiguous run in which the difference
\* falls to a single minimum strictly inside the run and rises again
SingleRunOneExact(p1_name, p2_name, aspect_name) ==
    LET S == InOrbSamples(p1_name, p2_name, aspect_name)
        D(n) == DiffAtSample(n, p1_name, p2_name, aspect_name)
    IN  /\ S # {}
        /\ \A a, b \in S : \A n \in a..b : n \in S
        /\ \E m \in S :
               /\ m - 1 \in S /\ m + 1 \in S
               /\ \A n \in S : n < m => D(n) > D(n + 1)
               /\ \A n \in S : n > m => D(n - 1) < D(n)

EventsOf(p1_name, p2_name, aspect_name) ==
    {i \in 1..Len(asp_result) :
        /\ asp_result[i].planeta1 = p1_name
        /\ asp_result[i].planeta2 = p2_name
        /\ asp_result[i].tipo_aspecto = aspect_name}

\* C5: when the within-orb scan samples of a pair and aspect form a single
\* contiguous run around one exact instant, the call returns exactly one
\* event for that pair and aspect.
C5_OneEventPerAspect ==
    apc = "done" =>
        \A k \in 1..Len(PlanetPairs(planet_names)) :
            \A a \in 1..Len(AspectNames) :
                LET pair == PlanetPairs(planet_names)[k]
                IN  SingleRunOneExact(pair[1], pair[2], AspectNames[a])
                        => Cardinality(EventsOf(pair[1], pair[2],
                                                AspectNames[a])) = 1

\* the scenario of C6: a pair searched in 1-day windows; the first body
\* moves 1 degree per day, the second 0.5 degree per day and starts 90.2
\* degrees ahead, so that the difference falls through 90 degrees after
\* 0.2 / 0.5 day
SquareScenario ==
    /\ SearchWindow(planet_names[1], planet_names[2]) = Days(1)
    /\ rate[planet_names[1]] = 10
    /\ rate[planet_names[2]] = 5
    /\ turn[planet_names[1]] = NoTurn
    /\ (lon0[planet_names[2]] - lon0[planet_names[1]]) % Circle
           = 90 * UnitsPerDegree + UnitsPerDegree \div 5

SquareExactSecond == (UnitsPerDegree \div 5) \div (10 - 5)

\* C6: in that scenario the detector returns the square at the instant the
\* difference equals 90 degrees (to the search tolerance of 1 second), with
\* the applying flag true.
C6_SquareApplying ==
    (apc = "done" /\ SquareScenario) =>
        \E i \in 1..Len(asp_result) :
            /\ asp_result[i].tipo_aspecto = "Cuadratura"
            /\ Abs(asp_result[i].fecha_utc - Seconds(SquareExactSecond))
                   <= Seconds(1)
            /\ asp_result[i].es_aplicativo = TRUE

(***************************************************************************)
(* RetrogradeCalculator, src/calculators/retrogrades.py                    *)
(***************************************************************************)
\* RETROGRADE_SEARCH_INTERVALS (src/core/constants.py:137-146), in ticks
RetrogradeSearchInterval(planet_name) ==
    CASE planet_name = "Mercurio" -> Hours(6)
      [] planet_name = "Venus" -> Hours(12)
      [] planet_name = "Marte" -> Days(1)
      [] OTHER -> Days(2)

\* float('inf') (lines 50, 73): above every speed of the model
Infinity == 2147483647

\* _calculate_speed (lines 13-26): the motion over the hour after jd, with
\* the correction for the crossing of 0 degrees, in angle units per day
Unwrap(diff) ==
    IF Abs(diff) > 180 * UnitsPerDegree
    THEN IF diff > 0 THEN diff - Circle ELSE diff + Circle
    ELSE diff

CalculateSpeed(jd, b) ==
    Only({Unwrap(diff) * 24 : diff \in {Position(b, jd + 3600) - Position(b, jd)}})

\* _calculate_planet_position (lines 28-39): the fields the calculator uses
CalculatePlanetPosition(date, b) ==
    [found |-> TRUE, date |-> date,
     speed |-> CalculateSpeed(JulianSecond(date), b)]

\* one sweep of _find_station_point (lines 53-62, 75-84, 93-101) from the
\* state st = <<best_pos, min_speed, current_date>>: every sample up to
\* last, a strictly smaller |speed| replacing the best
RECURSIVE Sweep(_, _, _, _)
Sweep(b, st, last, step) ==
    IF st[3] > last THEN st
    ELSE Sweep(b,
               Only({IF Abs(pos.speed) < st[2]
                     THEN <<pos, Abs(pos.speed), st[3] + step>>
                     ELSE <<st[1], st[2], st[3] + step>> :
                        pos \in {CalculatePlanetPosition(st[3], b)}}),
               last, step)

\* the second sweep (lines 67-84): around the coarse best, at a sixth of the
\* step, min_speed reset to infinity (best_date and best_pos are kept, and
\* replaced by the first sample)
Refine(b, coarse, interval) ==
    IF ~coarse[1].found THEN coarse
    ELSE Sweep(b, <<coarse[1], Infinity, coarse[1].date - interval>>,
               coarse[1].date + interval, RoundHalfEven(interval, 6))

\* the third sweep (lines 86-101): half an hour either side of the refined
\* best, every 30 seconds, min_speed carried over
Final(b, refined) ==
    IF ~refined[1].found THEN refined
    ELSE Sweep(b, <<refined[1], refined[2], refined[1].date - Minutes(30)>>,
               refined[1].date + Minutes(30), Seconds(30))

\* the first sweep (lines 47-62): the bracket, at a quarter of the planet's
\* search interval
Coarse(b, start, end) ==
    Sweep(b, <<None, Infinity, start>>, end,
          RoundHalfEven(RetrogradeSearchInterval(b), 4))

\* _find_station_point (lines 41-103): None (line 65) or best_pos
FindStationPoint(start, end, planet_name, is_retrograde_station) ==
    Only({final[1] :
          final \in {Final(planet_name, refined) :
              refined \in {Refine(planet_name, coarse,
                                  RoundHalfEven(RetrogradeSearchInterval(
                                                    planet_name), 4)) :
                  coarse \in {Coarse(planet_name, start, end)}}}})

\* second 0 of the model is 2025-01-01T00:00:00Z (src/test_retrogades.py:33,
\* src/main.py:43); years are taken as 365 days long
DaysBeforeMonth ==
    <<0, 31, 59, 90, 120, 151, 181, 212, 243, 273, 304, 334>>

\* date.strftime('%Y-%m') (line 143), as <<year, month>>
YearMonth(date) ==
    LET day == JulianSecond(date) \div 86400
        year == 2025 + day \div 365
        day_of_year == day % 365
        month == CHOOSE k \in 1..12 :
                     /\ DaysBeforeMonth[k] <= day_of_year
                     /\ k < 12 => day_of_year < DaysBeforeMonth[k + 1]
    IN  <<year, month>>

\* lines 128 and 118-120
MinTime(planet_name) ==
    IF planet_name = "Mercurio" THEN Days(30) ELSE Days(60)

ScanInterval(planet_name) ==
    IF planet_name = "Mercurio" THEN Hours(4)
    ELSE RetrogradeSearchInterval(planet_name)

\* the guard of line 130 dropped
GuardNever(planet_name, now, last_station) == TRUE
\* line 130: no station recorded for this planet in this call, or the last
\* one at least min_time before the scan instant
GuardPassed(planet_name, now, last_station) ==
    ~last_station.found \/ now - last_station.date >= MinTime(planet_name)

\* the planets of a model run, of AstronomicalConstants.PLANETS
RetPlanets == <<"Mercurio", "Venus", "Marte">>

\* angle units per second: 1, 1 and 0.5 degree per day
RetRate(planet_name) ==
    CASE planet_name = "Mercurio" -> 10
      [] planet_name = "Venus" -> 10
      [] OTHER -> 5

\* a planet turns retrograde 5 days 3 h 46 min into the range, and direct
\* again 23, 42 or 72 days later (Marte: 72 days, or 2 hours less than 60
\* days later)
FirstStation == 5 * 86400 + 3 * 3600 + 46 * 60

DurationChoices(planet_name) ==
    IF planet_name = "Marte" THEN {72 * 86400, 60 * 86400 - 7200}
    ELSE {23 * 86400, 42 * 86400 + 1560, 72 * 86400}

\* a station is instantaneous, or the speed changes over 2 * 6 hours
RampChoices == {0, 720}

\* a fresh RetrogradeCalculator (lines 10-11) and its first call
\* calculate_retrogrades(start_date, end_date)
RetInit ==
    /\ ret_planets = RetPlanets
    /\ lon0 = [b \in {"Mercurio", "Venus", "Marte"} |-> 350 * UnitsPerDegree]
    /\ rate = [b \in {"Mercurio", "Venus", "Marte"} |-> RetRate(b)]
    /\ turn = [b \in {"Mercurio", "Venus", "Marte"} |-> FirstStation]
    /\ \E dm \in DurationChoices("Mercurio"), dv \in DurationChoices("Venus"),
          dx \in DurationChoices("Marte") :
           back = [b \in {"Mercurio", "Venus", "Marte"} |->
                      FirstStation + (IF b = "Mercurio" THEN dm
                                      ELSE IF b = "Venus" THEN dv ELSE dx)]
    /\ \E r \in RampChoices :
           ramp = [b \in {"Mercurio", "Venus", "Marte"} |-> r]
    /\ ret_start = 0
    /\ ret_end = Days(RetroDays)
    /\ planet_idx = 1
    /\ ret_current = ret_start
    /\ was_retrograde = "None"
    /\ retro_start = None
    /\ ret_events = <<>>
    /\ processed_events = {}
    /\ rpc = "scan"
    /\ ret_results = <<>>

\* Python's bool, for a variable that may also hold None
BoolStr(b) == IF b THEN "True" ELSE "False"

\* line 139
EventTypeOf(is_retrograde) ==
    IF is_retrograde THEN "RETROGRADO_INICIO" ELSE "RETROGRADO_FIN"

\* lines 122-155: one iteration of "while current_date < end_date"; station
\* is None when lines 126 and 130 keep _find_station_point from being called
RetScan ==
    /\ rpc = "scan"
    /\ planet_idx <= Len(ret_planets)
    /\ ret_current < ret_end
    /\ \E planet_name \in {ret_planets[planet_idx]} :
       \E interval \in {ScanInterval(planet_name)} :
       \E is_retrograde \in
              {CalculatePlanetPosition(ret_current, planet_name).speed < 0} :
       \E station \in
              {IF /\ was_retrograde # "None"
                  /\ BoolStr(is_retrograde) # was_retrograde
                  /\ GuardPassed(planet_name, ret_current, retro_start)
               THEN FindStationPoint(ret_current - interval,
                                     ret_current + interval,
                                     planet_name, is_retrograde)
               ELSE None} :
       \E event_id \in
              {IF station.found
               THEN <<planet_name, EventTypeOf(is_retrograde),
                      YearMonth(station.date)>>
               ELSE <<>>} :
       \E emit \in {station.found /\ event_id \notin processed_events} :
           /\ ret_events' =
                  IF emit
                  THEN Append(ret_events,
                              [fecha_utc |-> station.date,
                               tipo_evento |-> EventTypeOf(is_retrograde),
                               planeta |-> planet_name])
                  ELSE ret_events
           /\ processed_events' =
                  IF emit THEN processed_events \cup {event_id}
                  ELSE processed_events
           /\ retro_start' =
                  IF emit THEN [found |-> TRUE, date |-> station.date]
                  ELSE retro_start
           /\ was_retrograde' = BoolStr(is_retrograde)
           /\ ret_current' = ret_current + interval
    /\ UNCHANGED <<ret_planets, ret_start, ret_end, planet_idx, rpc,
                   ret_results>>
    /\ UNCHANGED <<oracleVars, notRet>>

\* lines 109-120: the scan of a planet is over, on to the next planet
RetNextPlanet ==
    /\ rpc = "scan"
    /\ planet_idx <= Len(ret_planets)
    /\ ~(ret_current < ret_end)
    /\ planet_idx' = planet_idx + 1
    /\ ret_current' = ret_start
    /\ was_retrograde' = "None"
    /\ retro_start' = None
    /\ UNCHANGED <<ret_planets, ret_start, ret_end, ret_events,
                   processed_events, rpc, ret_results>>
    /\ UNCHANGED <<oracleVars, notRet>>

\* line 157
RetReturn ==
    /\ rpc = "scan"
    /\ planet_idx > Len(ret_planets)
    /\ ret_results' = Append(ret_results, SortByDate(ret_events))
    /\ rpc' = "done"
    /\ UNCHANGED <<ret_planets, ret_start, ret_end, planet_idx, ret_current,
                   was_retrograde, retro_start, ret_events, processed_events>>
    /\ UNCHANGED <<oracleVars, notRet>>

\* lines 105-116: calculate_retrogrades is called again on the same
\* calculator with the same range; self.processed_events is kept
RetCallAgain ==
    /\ rpc = "done"
    /\ Len(ret_results) < MaxCalls
    /\ ret_events' = <<>>
    /\ planet_idx' = 1
    /\ ret_current' = ret_start
    /\ was_retrograde' = "None"
    /\ retro_start' = None
    /\ rpc' = "scan"
    /\ UNCHANGED <<ret_planets, ret_start, ret_end, processed_events,
                   ret_results>>
    /\ UNCHANGED <<oracleVars, notRet>>

RetNext == RetScan \/ RetNextPlanet \/ RetReturn \/ RetCallAgain

InitRetro == RetInit /\ FETIdle /\ AspIdle /\ EclIdle /\ ExtIdle

SpecRetro == InitRetro /\ [][RetNext]_vars

(***************************************************************************)
(* Claims about the retrograde detector                                    *)
(***************************************************************************)
\* the coarse samples of a planet: the instants n * interval before the end
\* of the range
LastSample(planet_name) ==
    (ret_end - ret_start - 1) \div ScanInterval(planet_name)

RetrogradeAtSample(planet_name, n) ==
    CalculatePlanetPosition(ret_start + n * ScanInterval(planet_name),
                            planet_name).speed < 0

\* the samples at which the derived speed has changed sign since the sample
\* before, to negative (to_retrograde) or back
FlipSamples(planet_name, to_retrograde) ==
    {n \in 1..LastSample(planet_name) :
        /\ RetrogradeAtSample(planet_name, n) = to_retrograde
        /\ RetrogradeAtSample(planet_name, n - 1) # to_retrograde}

StationEvents(result, planet_name, event_type) ==
    {i \in 1..Len(result) :
        /\ result[i].planeta = planet_name
        /\ result[i].tipo_evento = event_type}

\* C7: a call on a fresh calculator returns, for each planet, one
\* 'retrograde start' event for every flip of the derived speed to negative
\* between consecutive coarse samples of the range and one 'retrograde end'
\* event for every flip back.
C7_EveryFlipReported ==
    (rpc = "done" /\ Len(ret_results) = 1) =>
        \A k \in 1..Len(ret_planets) :
            /\ Cardinality(StationEvents(ret_results[1], ret_planets[k],
                                         "RETROGRADO_INICIO"))
                   = Cardinality(FlipSamples(ret_planets[k], TRUE))
            /\ Cardinality(StationEvents(ret_results[1], ret_planets[k],
                                         "RETROGRADO_FIN"))
                   = Cardinality(FlipSamples(ret_planets[k], FALSE))

EventSet(result) == {result[i] : i \in 1..Len(result)}

\* C8: a second call of calculate_retrogrades on the same calculator, over
\* the same range and with the same oracle, returns the same set of events
\* as the first.
C8_Idempotent ==
    Len(ret_results) >= 2 => EventSet(ret_results[2]) = EventSet(ret_results[1])

(***************************************************************************)
(* The eclipse classifiers, src/calculators/eclipses.py:134-179            *)
(***************************************************************************)
\* n tenths, n hundredths of a degree
Tenths(n) == (n * UnitsPerDegree) \div 10

Hundredths(n) == (n * UnitsPerDegree) \div 100

\* line 145: 0.9
SolarAnnularLatitudeBelow == Hundredths(90) - 1
SolarAnnularLatitude == Hundredths(90)

\* _get_solar_eclipse_type (lines 134-152)
GetSolarEclipseType(d, lat, signed) ==
    IF d > Tenths(185) THEN <<signed, "None">>
    ELSE IF lat > Tenths(15) THEN <<signed, "None">>
    ELSE IF d <= Tenths(100)
         THEN IF lat <= Tenths(5) THEN <<signed, "Total">>
              ELSE IF lat <= SolarAnnularLatitude THEN <<signed, "Anular">>
              ELSE IF lat <= Tenths(12) THEN <<signed, "Parcial">>
              ELSE <<signed, "None">>
    ELSE IF d <= Tenths(185) THEN <<signed, "Parcial">>
    ELSE <<signed, "None">>

\* lines 163-165
Elong(sun, moon) ==
    LET elong == Abs(moon - (sun + 180 * UnitsPerDegree))
    IN  IF elong > 180 * UnitsPerDegree THEN Circle - elong ELSE elong

\* line 176: 175
PenumbralElongationAbove == 175 * UnitsPerDegree + 1
PenumbralElongation == 175 * UnitsPerDegree

\* line 167: 3.8
LunarTotalDistanceWide == Tenths(60)
LunarTotalDistance == Tenths(38)

\* _get_lunar_eclipse_type (lines 154-179)
GetLunarEclipseType(d, lat, sun, moon, signed) ==
    IF d > Tenths(125) THEN <<signed, "None">>
    ELSE IF lat > Tenths(10) THEN <<signed, "None">>
    ELSE LET elong == Elong(sun, moon)
         IN  IF d <= LunarTotalDistance
             THEN IF lat <= Tenths(5) THEN <<signed, "Total">>
                  ELSE IF lat <= Tenths(7) THEN <<signed, "Parcial">>
                  ELSE <<signed, "None">>
             ELSE IF d <= Tenths(60)
             THEN IF lat <= Hundredths(85) THEN <<signed, "Parcial">>
                  ELSE <<signed, "None">>
             ELSE IF d <= Tenths(125)
             THEN IF lat <= Tenths(10) /\ elong >= PenumbralElongation
                  THEN <<signed, "Penumbral">>
                  ELSE <<signed, "None">>
             ELSE <<signed, "None">>

\* the values within Margin units of a threshold
Around(threshold) == (threshold - Margin)..(threshold + Margin)

\* node distances: 0, 5 and the neighbourhoods of 3.8, 6, 10, 12.5 and 18.5
DistanceChoices ==
    {0, Tenths(50)} \cup Around(Tenths(38)) \cup Around(Tenths(60))
        \cup Around(Tenths(100)) \cup Around(Tenths(125))
        \cup Around(Tenths(185))

\* latitudes: 0, 0.3 and the neighbourhoods of 0.5, 0.7, 0.85, 0.9, 1.0, 1.2,
\* 1.5
LatitudeChoices ==
    {0, Tenths(3)} \cup Around(Tenths(5)) \cup Around(Tenths(7))
        \cup Around(Hundredths(85)) \cup Around(Tenths(9))
        \cup Around(Tenths(10)) \cup Around(Tenths(12))
        \cup Around(Tenths(15))

\* the Moon's longitude against the point opposite the Sun: on it, and in
\* the neighbourhood of 175 degrees from it
OppositionOffsets == {0} \cup Around(175 * UnitsPerDegree)

\* the arguments _get_node_distance_and_type (lines 129-132) passes on
EclInit ==
    /\ node_distance \in DistanceChoices
    /\ signed_distance \in {node_distance, -node_distance}
    /\ moon_lat \in LatitudeChoices
    /\ is_solar \in BOOLEAN
    /\ sun_lon \in IF is_solar THEN {0} ELSE {0, 200 * UnitsPerDegree}
    /\ moon_lon \in IF is_solar THEN {0}
                    ELSE {(sun_lon + 180 * UnitsPerDegree + o) % Circle :
                             o \in OppositionOffsets}
    /\ node_lon = 0
    /\ epc = "call"
    /\ ecl_result = <<>>

\* line 130
EclSolar ==
    /\ epc = "call"
    /\ is_solar
    /\ ecl_result' = GetSolarEclipseType(node_distance, moon_lat,
                                         signed_distance)
    /\ epc' = "done"
    /\ UNCHANGED <<node_distance, signed_distance, moon_lat, sun_lon,
                   moon_lon, node_lon, is_solar>>
    /\ UNCHANGED notEcl

\* line 132
EclLunar ==
    /\ epc = "call"
    /\ ~is_solar
    /\ ecl_result' = GetLunarEclipseType(node_distance, moon_lat, sun_lon,
                                         moon_lon, signed_distance)
    /\ epc' = "done"
    /\ UNCHANGED <<node_distance, signed_distance, moon_lat, sun_lon,
                   moon_lon, node_lon, is_solar>>
    /\ UNCHANGED notEcl

EclNext == EclSolar \/ EclLunar

InitEclipse == EclInit /\ FETIdle /\ OracleIdle /\ AspIdle /\ RetIdle /\ ExtIdle

SpecEclipse == InitEclipse /\ [][EclNext]_vars

(***************************************************************************)
(* Claims about the eclipse classifiers                                    *)
(***************************************************************************)
\* C9: for a node distance d >= 0 and a latitude l >= 0 the solar
\* classifier returns none if d > 18.5 or l > 1.5; otherwise, for d <= 10,
\* Total when l <= 0.5, Annular when 0.5 < l <= 0.9, Partial when
\* 0.9 < l <= 1.2, none when 1.2 < l <= 1.5; otherwise (10 < d <= 18.5)
\* Partial.
C9_SolarTable ==
    (epc = "done" /\ is_solar) =>
        LET d == node_distance
            l == moon_lat
        IN  ecl_result[2] =
                IF d > Tenths(185) \/ l > Tenths(15) THEN "None"
                ELSE IF d <= Tenths(100)
                THEN CASE l <= Tenths(5) -> "Total"
                       [] Tenths(5) < l /\ l <= Tenths(9) -> "Anular"
                       [] Tenths(9) < l /\ l <= Tenths(12) -> "Parcial"
                       [] Tenths(12) < l /\ l <= Tenths(15) -> "None"
                ELSE "Parcial"

\* C9 witness: the classifier was called on the inclusive boundary of the
\* Annular tier, d = 10 and l = 0.9, and returned Annular
C9_Witness ==
    /\ epc = "done" /\ is_solar
    /\ node_distance = Tenths(100)
    /\ moon_lat = Tenths(9)
    /\ ecl_result[2] = "Anular"

LunarScenario ==
    /\ epc = "done" /\ ~is_solar
    /\ node_distance = Tenths(50)
    /\ moon_lat = Tenths(3)

\* C11 as stated: with node distance 5 degrees and latitude 0.3 degrees the
\* lunar classifier returns Total.
C11_LunarTotal == LunarScenario => ecl_result[2] = "Total"

\* C11 amended: with node distance 5 degrees and latitude 0.3 degrees the
\* lunar classifier returns Partial (5 lies in the tier 3.8 < d <= 6).
C11_LunarPartial == LunarScenario => ecl_result[2] = "Parcial"

\* C11 witness: the classifier was called with those arguments and returned
\* Partial
C11_Witness == LunarScenario /\ ecl_result[2] = "Parcial"

(***************************************************************************)
(* _get_node_distance_and_type, src/calculators/eclipses.py:97-132         *)
(***************************************************************************)
\* lines 115-116 left out for the south node
WrapNever(dist) == dist
\* lines 115-118: "if dist > 180: dist = 360 - dist"
Wrap(dist) == IF dist > 180 * UnitsPerDegree THEN Circle - dist ELSE dist

\* lines 111-126: <<node_distance, signed_distance>>
NodeDistance(moon, node) ==
    Only({IF dist[1] <= dist[2] THEN <<dist[1], dist[1]>>
          ELSE <<dist[2], -dist[2]>> :
             dist \in {<<Wrap(Abs(moon - node)),
                         Wrap(Abs(moon - (node + 180 * UnitsPerDegree)))>>}})

\* longitudes in [0, 360): the steps of the circle, and 1 and 359 degrees
LongitudeChoices ==
    {k * (Circle \div NodeSteps) : k \in 0..(NodeSteps - 1)}
        \cup {UnitsPerDegree, 359 * UnitsPerDegree}

\* the Moon's ecliptic latitude as the oracle gives it, signed
RawLatitudeChoices == {-Tenths(3), 0, Tenths(3), Tenths(50)}

\* a call _get_node_distance_and_type(jd, is_solar) and the positions the
\* oracle gives for jd (lines 100-102)
NodeInit ==
    /\ moon_lon \in LongitudeChoices
    /\ node_lon \in LongitudeChoices
    /\ moon_lat \in RawLatitudeChoices
    /\ is_solar \in BOOLEAN
    /\ sun_lon = IF is_solar THEN moon_lon
                 ELSE (moon_lon + 180 * UnitsPerDegree) % Circle
    /\ node_distance = 0
    /\ signed_distance = 0
    /\ epc = "positions"
    /\ ecl_result = <<>>

\* lines 104-126
EclNodeDistance ==
    /\ epc = "positions"
    /\ moon_lat' = Abs(moon_lat)
    /\ \E nd \in {NodeDistance(moon_lon, node_lon)} :
           /\ node_distance' = nd[1]
           /\ signed_distance' = nd[2]
    /\ epc' = "call"
    /\ UNCHANGED <<sun_lon, moon_lon, node_lon, is_solar, ecl_result>>
    /\ UNCHANGED notEcl

NodeNext == EclNodeDistance \/ EclSolar \/ EclLunar

InitNode == NodeInit /\ FETIdle /\ OracleIdle /\ AspIdle /\ RetIdle /\ ExtIdle

SpecNode == InitNode /\ [][NodeNext]_vars

\* the shorter-arc angular distance of two longitudes in [0, 360)
ShorterArc(a, b) == Min2((a - b) % Circle, (b - a) % Circle)

\* C12: the node distance handed to the classifiers is the shorter-arc
\* distance from the Moon to the nearer of the north node and the south
\* node (node + 180 mod 360), it lies in [0, 90] degrees, and the signed
\* distance is positive when the north node is the nearer one and negative
\* when the south node is.
C12_NodeDistance ==
    epc \in {"call", "done"} =>
        LET north == ShorterArc(moon_lon, node_lon)
            south == ShorterArc(moon_lon,
                                (node_lon + 180 * UnitsPerDegree) % Circle)
        IN  /\ node_distance = Min2(north, south)
            /\ node_distance >= 0
            /\ node_distance <= 90 * UnitsPerDegree
            /\ north < south => signed_distance = north
            /\ south < north => signed_distance = -south

(***************************************************************************)
(* Wraparound arithmetic: calculate_speed, src/utils/math_utils.py, and    *)
(* _calculate_aspect_difference, src/calculators/aspects.py                *)
(***************************************************************************)
UnwrapNever(diff, degree) == diff

\* the correction for the crossing of 0 degrees (lines 11-16); degree is
\* the number of angle units in one degree
UnwrapBy(diff, degree) ==
    IF Abs(diff) > 180 * degree
    THEN IF diff > 0 THEN diff - 360 * degree ELSE diff + 360 * degree
    ELSE diff

\* calculate_speed (lines 5-18) from the two positions it reads, pos1 at jd
\* and pos2 an hour later: angle units per day
SpeedFromPositions(pos1_, pos2_, degree) ==
    UnwrapBy(pos2_ - pos1_, degree) * 24

\* longitudes in whole degrees: a grid around the circle and the values
\* next to 0, 180 and 360
DegreeChoices ==
    {k * (360 \div NodeSteps) : k \in 0..(NodeSteps - 1)}
        \cup {1, 2, 3, 179, 180, 181, 357, 358, 359}

Shifted(lon) == (lon + offset) % 360

WrapInit ==
    /\ pos1 \in DegreeChoices
    /\ pos2 \in DegreeChoices
    /\ offset \in DegreeChoices
    /\ speeds = <<>>
    /\ diffs = <<>>
    /\ wpc = "speed"

\* calculate_speed for the pair and for the shifted pair
WrapSpeed ==
    /\ wpc = "speed"
    /\ speeds' = <<SpeedFromPositions(pos1, pos2, 1),
                   SpeedFromPositions(Shifted(pos1), Shifted(pos2), 1)>>
    /\ wpc' = "difference"
    /\ UNCHANGED <<pos1, pos2, offset, diffs>>
    /\ UNCHANGED notWrap

\* _calculate_aspect_difference for every aspect, for the pair and for the
\* shifted pair
WrapDifference ==
    /\ wpc = "difference"
    /\ diffs' = [i \in 1..Len(AspectNames) |->
                    <<CalculateAspectDifference(pos1 * UnitsPerDegree,
                                                pos2 * UnitsPerDegree,
                                                AspectAngle(AspectNames[i])),
                      CalculateAspectDifference(
                          Shifted(pos1) * UnitsPerDegree,
                          Shifted(pos2) * UnitsPerDegree,
                          AspectAngle(AspectNames[i]))>>]
    /\ wpc' = "done"
    /\ UNCHANGED <<pos1, pos2, offset, speeds>>
    /\ UNCHANGED notWrap

WrapNext == WrapSpeed \/ WrapDifference

InitWrap ==
    WrapInit /\ FETIdle /\ OracleIdle /\ AspIdle /\ RetIdle /\ EclIdle /\ BisIdle /\ IngIdle /\ GpIdle /\ GeoIdle /\ MainIdle /\ MoonIdle /\ StIdle /\ NdIdle /\ HouseIdle

SpecWrap == InitWrap /\ [][WrapNext]_vars

\* C13: adding the same offset to both longitudes modulo 360 changes
\* neither the magnitude of the derived speed nor any aspect angular
\* difference; the speed from 359 to 1 degree equals the speed from 1 to 3
\* degrees (48 degrees per day); the difference of 359 and 1 degrees for
\* the 0-degree aspect is 2 degrees; the shorter-arc separation (the
\* difference for the 0-degree aspect) lies in [0, 180] degrees.
C13_Wraparound ==
    wpc = "done" =>
        /\ Abs(speeds[1]) = Abs(speeds[2])
        /\ \A i \in 1..Len(AspectNames) : diffs[i][1] = diffs[i][2]
        /\ (pos1 = 359 /\ pos2 = 1 /\ offset = 2) =>
               /\ speeds = <<48, 48>>
               /\ diffs[1][1] = 2 * UnitsPerDegree
        /\ diffs[1][1] >= 0
        /\ diffs[1][1] <= 180 * UnitsPerDegree

C13_Witness ==
    /\ wpc = "done"
    /\ pos1 = 359 /\ pos2 = 1 /\ offset = 2
    /\ speeds = <<48, 48>>
    /\ diffs[1] = <<2 * UnitsPerDegree, 2 * UnitsPerDegree>>

(***************************************************************************)
(* IngressCalculator._find_exact_ingress, src/calculators/ingresses.py     *)
(***************************************************************************)
\* the sign index of the body at instant t: one change of sign, at crossing
SignAt(t) == IF t < crossing THEN from_sign ELSE to_sign

\* current_sign of lines 81-83: the position is read at julian_day(mid_date),
\* which leaves out the part of mid_date below one second
CurrentSign(mid_date) == SignAt(Seconds(JulianSecond(mid_date)))

\* tolerance = timedelta(seconds=1)  (line 77)
IngressTolerance == Seconds(1)

\* <<from_sign, to_sign>> of a call: forwards, backwards, and over 0 degrees
SignChoices == {<<0, 1>>, <<1, 0>>, <<11, 0>>}

BisInit ==
    /\ bis_start \in {0, Seconds(1)}
    /\ \E w \in 1..MaxBracket : bis_end = bis_start + Seconds(w)
    /\ crossing \in (bis_start + 1)..bis_end
    /\ \E sg \in SignChoices : from_sign = sg[1] /\ to_sign = sg[2]
    /\ bpc = "loop"
    /\ bis_result = None

\* one iteration of the loop (lines 79-88)
BisStep ==
    /\ bpc = "loop"
    /\ (bis_end - bis_start) > IngressTolerance
    /\ \E mid_date \in {MidDate(bis_start, bis_end)} :
          IF CurrentSign(mid_date) = from_sign
          THEN bis_start' = mid_date /\ UNCHANGED bis_end
          ELSE bis_end' = mid_date /\ UNCHANGED bis_start
    /\ UNCHANGED <<from_sign, to_sign, crossing, bpc, bis_result>>
    /\ UNCHANGED notBis

\* the loop exit and return start_date (lines 79, 90)
BisReturn ==
    /\ bpc = "loop"
    /\ ~((bis_end - bis_start) > IngressTolerance)
    /\ bis_result' = [found |-> TRUE, date |-> bis_start]
    /\ bpc' = "done"
    /\ UNCHANGED <<bis_start, bis_end, from_sign, to_sign, crossing>>
    /\ UNCHANGED notBis

BisNext == BisStep \/ BisReturn

InitBis ==
    BisInit /\ FETIdle /\ OracleIdle /\ AspIdle /\ RetIdle /\ EclIdle /\ WrapIdle /\ IngIdle /\ GpIdle /\ GeoIdle /\ MainIdle /\ MoonIdle /\ StIdle /\ NdIdle /\ HouseIdle

SpecBis == InitBis /\ [][BisNext]_vars

\* C14: given a bracket whose start is in from_sign, whose end is not, and
\* in which the sign changes exactly once, at every iteration the bracket
\* start is in from_sign and the bracket end is outside it, the loop stops
\* with a bracket no wider than 1 second, and the instant returned is at
\* most 1 second before the crossing and never after it.
C14_BisectionInvariant ==
    bpc \in {"loop", "done"} =>
        /\ SignAt(bis_start) = from_sign
        /\ SignAt(bis_end) # from_sign
        /\ bpc = "done" =>
               /\ bis_end - bis_start <= Seconds(1)
               /\ bis_result.date < crossing
               /\ crossing <= bis_result.date + Seconds(1)

(***************************************************************************)
(* IngressCalculator.calculate_ingresses, src/calculators/ingresses.py     *)
(***************************************************************************)
\* calculate_planet_position (src/utils/math_utils.py:20-30): the fields
\* the calculator uses
PlanetPosition(jd, b) ==
    [longitude |-> Position(b, jd),
     speed |-> SpeedFromPositions(Position(b, jd), Position(b, jd + 3600),
                                  UnitsPerDegree)]

\* int(pos['longitude'] / 30)  (lines 22, 83)
SignIndex(lon) == lon \div (30 * UnitsPerDegree)

\* _find_exact_ingress (lines 74-90) over the position oracle
RECURSIVE FindExactIngress(_, _, _, _)
FindExactIngress(s, e, b, from) ==
    IF ~((e - s) > IngressTolerance) THEN s
    ELSE Only({IF SignIndex(PlanetPosition(JulianSecond(mid_date),
                                           b).longitude) = from
               THEN FindExactIngress(mid_date, e, b, from)
               ELSE FindExactIngress(s, mid_date, b, from) :
                   mid_date \in {MidDate(s, e)}})

DisplaySignCurrent(is_retro_at_ingress, prev, current_sign) == current_sign

\* display_sign (lines 39-46)
DisplaySign(is_retro_at_ingress, prev, current_sign) ==
    IF is_retro_at_ingress THEN prev ELSE current_sign

\* lines 34-66: the event of a change of sign seen at a coarse sample;
\* grado is in hundredths of a degree
IngressEvent(planet_name, exact_date, prev, current_sign) ==
    Only({[fecha_utc |-> exact_date,
           tipo_evento |-> "INGRESO_SIGNO",
           planeta1 |-> planet_name,
           longitud1 |-> exact_pos.longitude,
           velocidad1 |-> exact_pos.speed,
           signo |-> DisplaySign(exact_pos.speed < 0, prev, current_sign),
           grado |-> IF exact_pos.speed < 0 THEN 2999 ELSE 0,
           action |-> IF exact_pos.speed < 0 THEN "deja a" ELSE "ingresa a",
           movement |-> IF exact_pos.speed < 0 THEN "Retrogrado"
                        ELSE "Directo"] :
              exact_pos \in {PlanetPosition(JulianSecond(exact_date),
                                            planet_name)}})

\* the planets of a model run: two of AstronomicalConstants.PLANETS
IngPlanets == <<"Sol", "Mercurio">>

\* one degree per day, in angle units per second
IngRate == 10

\* Mercurio's motion from the start of the range, H hours after it: towards
\* 30 degrees from below (reached at H + 27) or from above after a station
\* at H + 1 (reached at H + 22), with the stations of the run
MotionChoices ==
    LET H == 24
        never == 3600 * 24 * (IngressDays + 10)
        below == 30 * UnitsPerDegree - 27 * 3600 * IngRate
        above == 30 * UnitsPerDegree + 20 * 3600 * IngRate
    IN  {[lon0 |-> below, turn |-> never, back |-> never],
         [lon0 |-> below, turn |-> 3600 * (H + 29), back |-> never],
         [lon0 |-> below, turn |-> 3600 * (H + 29),
          back |-> 3600 * (H + 33)],
         [lon0 |-> above, turn |-> 3600 * (H + 1), back |-> never],
         [lon0 |-> above, turn |-> 3600 * (H + 1),
          back |-> 3600 * (H + 23) + 1800],
         [lon0 |-> above, turn |-> 3600 * (H + 1),
          back |-> 3600 * (H + 40)]}

\* a fresh call calculate_ingresses(start_date, end_date); lon0 is the
\* longitude at start_date
IngInit ==
    /\ ing_planets = IngPlanets
    /\ \E m \in MotionChoices :
          /\ lon0 = [b \in {"Sol", "Mercurio"} |->
                        IF b = "Sol"
                        THEN 60 * UnitsPerDegree - (24 + 40) * 3600 * IngRate
                        ELSE m.lon0 - 24 * 3600 * IngRate]
          /\ turn = [b \in {"Sol", "Mercurio"} |->
                        IF b = "Sol" THEN 3600 * 24 * (IngressDays + 10)
                        ELSE m.turn]
          /\ back = [b \in {"Sol", "Mercurio"} |->
                        IF b = "Sol" THEN 3600 * 24 * (IngressDays + 10)
                        ELSE m.back]
    /\ rate = [b \in {"Sol", "Mercurio"} |-> IngRate]
    /\ ramp = [b \in {"Sol", "Mercurio"} |-> 0]
    /\ ing_start = Days(1)
    /\ ing_end \in {Days(1 + IngressDays), Days(1 + IngressDays) - Hours(3)}
    /\ ing_idx = 1
    /\ ing_current = ing_start
    /\ prev_sign = None
    /\ ing_events = <<>>
    /\ ing_samples = <<>>
    /\ ipc = "scan"
    /\ ing_result = <<>>

\* lines 19-70: one iteration of "while current_date < end_date"
IngScan ==
    /\ ipc = "scan"
    /\ ing_idx <= Len(ing_planets)
    /\ ing_current < ing_end
    /\ \E planet_name \in {ing_planets[ing_idx]} :
       \E current_sign \in
              {SignIndex(PlanetPosition(JulianSecond(ing_current),
                                        planet_name).longitude)} :
          /\ IF prev_sign.found /\ current_sign # prev_sign.sign
             THEN \E exact_date \in
                         {FindExactIngress(ing_current - Days(1),
                                           ing_current + Days(1),
                                           planet_name, prev_sign.sign)} :
                     /\ ing_events' =
                            Append(ing_events,
                                   IngressEvent(planet_name, exact_date,
                                                prev_sign.sign, current_sign))
                     /\ ing_samples' = Append(ing_samples, ing_current)
             ELSE UNCHANGED <<ing_events, ing_samples>>
          /\ prev_sign' = [found |-> TRUE, sign |-> current_sign]
    /\ ing_current' = ing_current + Hours(6)
    /\ UNCHANGED <<ing_planets, ing_start, ing_end, ing_idx, ipc, ing_result>>
    /\ UNCHANGED <<oracleVars, notIng>>

\* lines 14-17: the scan of a planet is over, on to the next planet
IngNextPlanet ==
    /\ ipc = "scan"
    /\ ing_idx <= Len(ing_planets)
    /\ ~(ing_current < ing_end)
    /\ ing_idx' = ing_idx + 1
    /\ ing_current' = ing_start
    /\ prev_sign' = None
    /\ UNCHANGED <<ing_planets, ing_start, ing_end, ing_events, ing_samples,
                   ipc, ing_result>>
    /\ UNCHANGED <<oracleVars, notIng>>

\* line 72
IngReturn ==
    /\ ipc = "scan"
    /\ ing_idx > Len(ing_planets)
    /\ ing_result' = SortByDate(ing_events)
    /\ ipc' = "done"
    /\ UNCHANGED <<ing_planets, ing_start, ing_end, ing_idx, ing_current,
                   prev_sign, ing_events, ing_samples>>
    /\ UNCHANGED <<oracleVars, notIng>>

IngNext == IngScan \/ IngNextPlanet \/ IngReturn

InitIng ==
    IngInit /\ FETIdle /\ AspIdle /\ RetIdle /\ EclIdle /\ WrapIdle /\ BisIdle /\ GpIdle /\ GeoIdle /\ MainIdle /\ MoonIdle /\ StIdle /\ NdIdle /\ HouseIdle

SpecIng == InitIng /\ [][IngNext]_vars

\* the derived speed of the body of event i at the instant of the event
SpeedAtCrossing(i) ==
    PlanetPosition(JulianSecond(ing_events[i].fecha_utc),
                   ing_events[i].planeta1).speed

\* the sign of the body of event i at the coarse sample that produced the
\* event (back = 0) or at the sample before it (back = 1)
SignAtSample(i, k) ==
    SignIndex(Position(ing_events[i].planeta1,
                       JulianSecond(ing_samples[i] - k * Hours(6))))

\* C15: every sign-ingress event is labelled by the direction of motion at
\* the instant of the event: with a negative derived speed there it names
\* the sign of the sample before the change, degree 29.99, 'deja a',
\* Retrogrado; otherwise it names the sign found at the later coarse
\* sample, degree 0.00, 'ingresa a', Directo.  The direction at the coarse
\* samples plays no part.
C15_IngressLabel ==
    /\ \A i \in 1..Len(ing_events) :
          IF SpeedAtCrossing(i) < 0
          THEN /\ ing_events[i].signo = SignAtSample(i, 1)
               /\ ing_events[i].grado = 2999
               /\ ing_events[i].action = "deja a"
               /\ ing_events[i].movement = "Retrogrado"
          ELSE /\ ing_events[i].signo = SignAtSample(i, 0)
               /\ ing_events[i].grado = 0
               /\ ing_events[i].action = "ingresa a"
               /\ ing_events[i].movement = "Directo"
    /\ ipc = "done" =>
          \A e \in {ing_result[j] : j \in 1..Len(ing_result)} :
              \E i \in 1..Len(ing_events) : ing_events[i] = e

\* a retrograde crossing reported after the body has turned direct again
\* before the coarse sample that saw the change
C15_Witness ==
    /\ ipc = "done"
    /\ \E i \in 1..Len(ing_events) :
          /\ ing_events[i].action = "deja a"
          /\ ing_events[i].velocidad1 < 0
          /\ PlanetPosition(JulianSecond(ing_samples[i]),
                            ing_events[i].planeta1).speed > 0

(***************************************************************************)
(* AspectCalculator._get_precise_position, src/calculators/aspects.py      *)
(***************************************************************************)
\* data[3] of swe.calc_ut with FLG_SPEED: the speed of the body at the
\* sample itself, in angle units per day
OracleSpeed(b, sec) ==
    IF sec < turn[b] \/ sec >= back[b] THEN 86400 * rate[b]
    ELSE -(86400 * rate[b])

\* the samples of a model run: the whole hours of a day, in seconds
SampleChoices == {3600 * h : h \in 0..23}

\* a call _get_precise_position(jd, planet_id) on a body that turns
\* retrograde at noon; swe.calc_ut may raise with either set of flags
GpInit ==
    /\ gp_jd \in SampleChoices
    /\ gp_planet \in {"Mercurio", "Venus"}
    /\ oracle_fails \in SUBSET {"FLG_SWIEPH|FLG_SPEED", "FLG_SWIEPH"}
    /\ lon0 = [b \in {"Mercurio", "Venus"} |-> 100 * UnitsPerDegree]
    /\ rate = [b \in {"Mercurio", "Venus"} |->
                  IF b = "Mercurio" THEN IngRate ELSE 2 * IngRate]
    /\ turn = [b \in {"Mercurio", "Venus"} |-> 3600 * 12]
    /\ back = [b \in {"Mercurio", "Venus"} |-> 3600 * 24 * 30]
    /\ ramp = [b \in {"Mercurio", "Venus"} |-> 0]
    /\ gp_calls = <<>>
    /\ gp_result = None
    /\ gpc = "try"

\* lines 45-53: the call with FLG_SPEED and the dictionary built from it
GpTry ==
    /\ gpc = "try"
    /\ gp_calls' = Append(gp_calls, "FLG_SWIEPH|FLG_SPEED")
    /\ IF "FLG_SWIEPH|FLG_SPEED" \in oracle_fails
       THEN gpc' = "except" /\ UNCHANGED gp_result
       ELSE /\ gp_result' = [found |-> TRUE,
                             longitude |-> Position(gp_planet, gp_jd),
                             speed |-> OracleSpeed(gp_planet, gp_jd)]
            /\ gpc' = "returned"
    /\ UNCHANGED <<gp_jd, gp_planet, oracle_fails>>
    /\ UNCHANGED <<oracleVars, notGp>>

\* lines 54-56: calculate_planet_position(jd, planet_id), which calls
\* swe.calc_ut with FLG_SWIEPH for the position and twice more for the speed
GpExcept ==
    /\ gpc = "except"
    /\ IF "FLG_SWIEPH" \in oracle_fails
       THEN /\ gp_calls' = Append(gp_calls, "FLG_SWIEPH")
            /\ gpc' = "raised"
            /\ UNCHANGED gp_result
       ELSE /\ gp_calls' = gp_calls \o <<"FLG_SWIEPH", "FLG_SWIEPH",
                                          "FLG_SWIEPH">>
            /\ \E pos \in {PlanetPosition(gp_jd, gp_planet)} :
                   gp_result' = [found |-> TRUE,
                                 longitude |-> pos.longitude,
                                 speed |-> pos.speed]
            /\ gpc' = "returned"
    /\ UNCHANGED <<gp_jd, gp_planet, oracle_fails>>
    /\ UNCHANGED <<oracleVars, notGp>>

GpNext == GpTry \/ GpExcept

InitGp ==
    GpInit /\ FETIdle /\ AspIdle /\ RetIdle /\ EclIdle /\ WrapIdle /\ BisIdle /\ IngIdle /\ GeoIdle /\ MainIdle /\ MoonIdle /\ StIdle /\ NdIdle /\ HouseIdle

SpecGp == InitGp /\ [][GpNext]_vars

\* C16: when the position oracle fails for a sample, the failure is
\* propagated for that sample: the caller gets no value from another
\* computation or a default, and the oracle is not called a second time.
C16_FailurePropagated ==
    (gpc \in {"returned", "raised"} /\ gp_calls # <<>>
        /\ gp_calls[1] \in oracle_fails) =>
        /\ gpc = "raised"
        /\ gp_result = None
        /\ Len(gp_calls) = 1

(***************************************************************************)
(* get_coordinates, src/utils/location_utils.py                            *)
(***************************************************************************)
\* what one call of geocoder.geocode can do: raise GeocoderTimedOut, raise
\* another exception, return None, or return a location whose altitude may
\* be missing
GeocoderAnswers ==
    {[kind |-> "timeout"], [kind |-> "error"], [kind |-> "none"],
     [kind |-> "location", latitude |-> -34, longitude |-> -58,
      altitude |-> [found |-> TRUE, value |-> 25]],
     [kind |-> "location", latitude |-> 40, longitude |-> 3,
      altitude |-> None]}

\* getattr(location, 'altitude', 0) or 0  (line 37)
Elevation(location) ==
    IF location.altitude.found THEN location.altitude.value ELSE 0

IsLastAttemptNever(attempt_, max_retries_) == FALSE

\* attempt == max_retries - 1  (line 41)
IsLastAttempt(attempt_, max_retries_) == attempt_ = max_retries_ - 1

GeoInit ==
    /\ max_retries \in 0..MaxRetries
    /\ answers \in [1..max_retries -> GeocoderAnswers]
    /\ attempt = 0
    /\ geo_calls = 0
    /\ geo_result = None
    /\ geopc = "loop"

\* lines 29-45: one iteration of "for attempt in range(max_retries)"
GeoAttempt ==
    /\ geopc = "loop"
    /\ attempt < max_retries
    /\ geo_calls' = geo_calls + 1
    /\ \E location \in {answers[geo_calls + 1]} :
          CASE location.kind = "location" ->
                 /\ geo_result' = [found |-> TRUE, outcome |-> "returned",
                                   value |-> <<location.latitude,
                                               location.longitude,
                                               Elevation(location)>>]
                 /\ geopc' = "done"
                 /\ UNCHANGED attempt
            [] location.kind = "none" ->
                 \* the ValueError of line 34 is caught at line 44
                 /\ geo_result' = [found |-> TRUE, outcome |-> "ValueError",
                                   message |-> "Error geocoding"]
                 /\ geopc' = "done"
                 /\ UNCHANGED attempt
            [] location.kind = "error" ->
                 /\ geo_result' = [found |-> TRUE, outcome |-> "ValueError",
                                   message |-> "Error geocoding"]
                 /\ geopc' = "done"
                 /\ UNCHANGED attempt
            [] location.kind = "timeout" ->
                 IF IsLastAttempt(attempt, max_retries)
                 THEN /\ geo_result' = [found |-> TRUE,
                                        outcome |-> "ValueError",
                                        message |-> "timed out",
                                        attempts |-> max_retries]
                      /\ geopc' = "done"
                      /\ UNCHANGED attempt
                 ELSE /\ attempt' = attempt + 1
                      /\ UNCHANGED <<geo_result, geopc>>
    /\ UNCHANGED <<max_retries, answers>>
    /\ UNCHANGED notGeo

\* the loop of line 29 runs out: the function ends without a return
\* statement and the caller gets None
GeoFallThrough ==
    /\ geopc = "loop"
    /\ ~(attempt < max_retries)
    /\ geo_result' = [found |-> TRUE, outcome |-> "returned",
                      value |-> "None"]
    /\ geopc' = "done"
    /\ UNCHANGED <<max_retries, answers, attempt, geo_calls>>
    /\ UNCHANGED notGeo

GeoNext == GeoAttempt \/ GeoFallThrough

InitGeo ==
    GeoInit /\ FETIdle /\ OracleIdle /\ AspIdle /\ RetIdle /\ EclIdle /\ WrapIdle /\ BisIdle /\ IngIdle /\ GpIdle /\ MainIdle /\ MoonIdle /\ StIdle /\ NdIdle /\ HouseIdle

SpecGeo == InitGeo /\ [][GeoNext]_vars

\* the number of calls that time out before the first call that does not
Timeouts ==
    Cardinality({k \in 1..max_retries :
                    \A j \in 1..k : answers[j].kind = "timeout"})

Detectors ==
    <<"lunar_calculator", "eclipse_calculator", "ingress_calculator",
      "retrograde_calculator", "aspect_calculator", "node_calculator">>

\* the lists a detector may return: none, events in ascending order of
\* instant, events in descending order (the phase and eclipse detectors
\* return two chronological runs one after the other)
ReturnChoice(d, c) ==
    CASE c = 0 -> <<>>
      [] c = 1 -> [i \in 1..MaxEvents |->
                      [fecha_utc |-> Days(i), detector |-> Detectors[d],
                       n |-> i]]
      [] c = 2 -> [i \in 1..MaxEvents |->
                      [fecha_utc |-> Days(MaxEvents - i) + Hours(d),
                       detector |-> Detectors[d], n |-> i]]

SortEventsNever(evs) == evs

\* self.events.sort(key=lambda x: x.fecha_utc)  (line 66)
SortEvents(evs) == SortByDate(evs)

\* a fresh AstronomicalCalendar (line 24) at the start of the call
MainInit ==
    /\ \E c \in [1..Len(Detectors) -> 0..2] :
          returns = [d \in 1..Len(Detectors) |-> ReturnChoice(d, c[d])]
    /\ self_events = <<>>
    /\ detector_idx = 1
    /\ mpc = "extend"

\* one of lines 48-63: self.events.extend(<detector>.calculate_*(..))
MainExtend ==
    /\ mpc = "extend"
    /\ detector_idx <= Len(Detectors)
    /\ self_events' = self_events \o returns[detector_idx]
    /\ detector_idx' = detector_idx + 1
    /\ UNCHANGED <<returns, mpc>>
    /\ UNCHANGED notMain

\* line 66
MainSort ==
    /\ mpc = "extend"
    /\ detector_idx > Len(Detectors)
    /\ self_events' = SortEvents(self_events)
    /\ mpc' = "done"
    /\ UNCHANGED <<returns, detector_idx>>
    /\ UNCHANGED notMain

MainNext == MainExtend \/ MainSort

InitMain ==
    MainInit /\ FETIdle /\ OracleIdle /\ AspIdle /\ RetIdle /\ EclIdle /\ WrapIdle /\ BisIdle /\ IngIdle /\ GpIdle /\ GeoIdle /\ MoonIdle /\ StIdle /\ NdIdle /\ HouseIdle

SpecMain == InitMain /\ [][MainNext]_vars

\* the number of times event e occurs in the list evs
Occurrences(evs, e) == Cardinality({i \in 1..Len(evs) : evs[i] = e})

\* C18: after calculate_all_events the event list is in non-decreasing
\* order of UTC instant and contains every event returned by each of the
\* six detectors, none dropped or altered by the merge.
C18_Merged ==
    mpc = "done" =>
        /\ \A i \in 1..(Len(self_events) - 1) :
               self_events[i].fecha_utc <= self_events[i + 1].fecha_utc
        /\ \A d \in 1..Len(Detectors) :
               \A i \in 1..Len(returns[d]) :
                   Occurrences(self_events, returns[d][i]) = 1
        /\ Len(self_events) = Cardinality({<<d, i>> \in
                  (1..Len(Detectors)) \X (1..MaxEvents) :
                      i <= Len(returns[d])})

\* every detector returned events, some of them out of order
C18_Witness ==
    /\ mpc = "done"
    /\ \A d \in 1..Len(Detectors) : Len(returns[d]) = MaxEvents
    /\ returns[1][1].fecha_utc > returns[1][MaxEvents].fecha_utc
    /\ returns[2][1].fecha_utc < returns[1][1].fecha_utc
    /\ Len(self_events) = Len(Detectors) * MaxEvents

(***************************************************************************)
(* LunarPhaseCalculator.calculate_phases, src/calculators/lunar_phases.py, *)
(* and EclipseCalculator.calculate_eclipses, src/calculators/eclipses.py,  *)
(* built on one observer by AstronomicalCalendar.__init__ (main.py:31-33)  *)
(***************************************************************************)
\* ephem.next_full_moon(date) / ephem.next_new_moon(date): the first syzygy
\* of the kind after date; one after every syzygy of the run is past
\* end_date
NextSyzygy(syzygies, date) ==
    IF \E x \in syzygies : x > date
    THEN CHOOSE x \in syzygies :
             x > date /\ \A y \in syzygies : y > date => x <= y
    ELSE moon_end + 1

\* body.compute(self.observer) followed by body.alt, body.az: the horizon
\* coordinates of the body at observer.date
Horizon(body) == [body |-> body, at |-> observer_date]

\* one new moon in the first days of the range and the syzygies that follow
\* it 15 days apart; start_date is day 0
MoonInit ==
    /\ moon_end = LunarDays
    /\ \E first \in {2, 10} :
          /\ new_moons = {first, first + 30}
          /\ full_moons = {first + 15, first + 45}
          /\ eclipse_at \in SUBSET {first, first + 15, first + 30}
    /\ observer_date = 0
    /\ lp_loop = "full" /\ lp_date = 0 /\ lp_next = None
    /\ lp_events = <<>>
    /\ ec_loop = "solar" /\ ec_date = 0 /\ ec_next = None
    /\ ec_events = <<>>

\* calculate_phases, lines 21-26 and 54-59: the loop test, the next syzygy,
\* the break and self.observer.date = next_full / next_new
LpSetDate ==
    /\ lp_loop \in {"full", "new"}
    /\ ~lp_next.found
    /\ \E nxt \in {NextSyzygy(IF lp_loop = "full" THEN full_moons
                               ELSE new_moons, lp_date)} :
          IF lp_date < moon_end /\ ~(nxt >= moon_end)
          THEN /\ observer_date' = nxt
               /\ lp_next' = [found |-> TRUE, date |-> nxt]
               /\ UNCHANGED <<lp_loop, lp_date>>
          ELSE /\ lp_loop' = IF lp_loop = "full" THEN "new" ELSE "done"
               /\ lp_date' = 0
               /\ UNCHANGED <<observer_date, lp_next>>
    /\ UNCHANGED <<full_moons, new_moons, eclipse_at, moon_end, lp_events,
                   ec_loop, ec_date, ec_next, ec_events>>
    /\ UNCHANGED notMoon

\* calculate_phases, lines 27-52 and 60-85: compute on the observer, append
\* the event, date = next + 1
LpCompute ==
    /\ lp_loop \in {"full", "new"}
    /\ lp_next.found
    /\ lp_events' =
           Append(lp_events,
                  [fecha_utc |-> lp_next.date,
                   tipo_evento |-> IF lp_loop = "full" THEN "LUNA_LLENA"
                                   ELSE "LUNA_NUEVA",
                   horizon |-> Horizon(IF lp_loop = "full" THEN "Moon"
                                       ELSE "Sun")])
    /\ lp_date' = lp_next.date + 1
    /\ lp_next' = None
    /\ UNCHANGED <<full_moons, new_moons, eclipse_at, moon_end,
                   observer_date, lp_loop, ec_loop, ec_date, ec_next,
                   ec_events>>
    /\ UNCHANGED notMoon

\* calculate_eclipses, lines 23-36 and 60-73: the loop test, the next
\* syzygy, the break, the eclipse type and, when there is one,
\* self.observer.date = next_new / next_full; without a type, line 56 / 95
EcSetDate ==
    /\ ec_loop \in {"solar", "lunar"}
    /\ ~ec_next.found
    /\ \E nxt \in {NextSyzygy(IF ec_loop = "solar" THEN new_moons
                               ELSE full_moons, ec_date)} :
          IF ec_date < moon_end /\ ~(nxt >= moon_end)
          THEN IF nxt \in eclipse_at
               THEN /\ observer_date' = nxt
                    /\ ec_next' = [found |-> TRUE, date |-> nxt]
                    /\ UNCHANGED <<ec_loop, ec_date>>
               ELSE /\ ec_date' = nxt + 1
                    /\ UNCHANGED <<observer_date, ec_next, ec_loop>>
          ELSE /\ ec_loop' = IF ec_loop = "solar" THEN "lunar" ELSE "done"
               /\ ec_date' = 0
               /\ UNCHANGED <<observer_date, ec_next>>
    /\ UNCHANGED <<full_moons, new_moons, eclipse_at, moon_end, lp_loop,
                   lp_date, lp_next, lp_events, ec_events>>
    /\ UNCHANGED notMoon

\* calculate_eclipses, lines 37-56 and 74-95
EcCompute ==
    /\ ec_loop \in {"solar", "lunar"}
    /\ ec_next.found
    /\ ec_events' =
           Append(ec_events,
                  [fecha_utc |-> ec_next.date,
                   tipo_evento |-> IF ec_loop = "solar" THEN "ECLIPSE_SOLAR"
                                   ELSE "ECLIPSE_LUNAR",
                   horizon |-> Horizon(IF ec_loop = "solar" THEN "Sun"
                                       ELSE "Moon")])
    /\ ec_date' = ec_next.date + 1
    /\ ec_next' = None
    /\ UNCHANGED <<full_moons, new_moons, eclipse_at, moon_end,
                   observer_date, ec_loop, lp_loop, lp_date, lp_next,
                   lp_events>>
    /\ UNCHANGED notMoon

\* the two detectors, their steps in any order
MoonNext == LpSetDate \/ LpCompute \/ EcSetDate \/ EcCompute

InitMoon ==
    MoonInit /\ FETIdle /\ OracleIdle /\ AspIdle /\ RetIdle /\ EclIdle /\ WrapIdle /\ BisIdle /\ IngIdle /\ GpIdle /\ GeoIdle /\ MainIdle /\ StIdle /\ NdIdle /\ HouseIdle

SpecMoon == InitMoon /\ [][MoonNext]_vars

\* C19: whatever the order of the steps of the lunar-phase detector and of
\* the eclipse detector, every event carries the elevation and azimuth
\* computed for its own instant, as it does when one detector runs after
\* the other.
C19_OwnInstant ==
    /\ \A i \in 1..Len(lp_events) :
          lp_events[i].horizon.at = lp_events[i].fecha_utc
    /\ \A i \in 1..Len(ec_events) :
          ec_events[i].horizon.at = ec_events[i].fecha_utc

(***************************************************************************)
(* RetrogradeCalculator._find_station_point, sweep by sweep                *)
(***************************************************************************)
\* one iteration of a sweep (lines 54-62, 76-84, 94-101)
SweepStep(b, st, step) ==
    Only({IF Abs(pos.speed) < st[2]
          THEN <<pos, Abs(pos.speed), st[3] + step>>
          ELSE <<st[1], st[2], st[3] + step>> :
             pos \in {CalculatePlanetPosition(st[3], b)}})

\* the scan sample at which calculate_retrogrades sees the first station
SampleAfterStation(planet_name) ==
    ((Seconds(FirstStation) \div ScanInterval(planet_name)) + 1)
        * ScanInterval(planet_name)

\* the call of lines 131-136 at the scan sample after the station, or at
\* the sample after that one
StInit ==
    /\ st_planet \in {"Mercurio", "Venus", "Marte"}
    /\ lon0 = [b \in {"Mercurio", "Venus", "Marte"} |-> 350 * UnitsPerDegree]
    /\ rate = [b \in {"Mercurio", "Venus", "Marte"} |-> RetRate(b)]
    /\ turn = [b \in {"Mercurio", "Venus", "Marte"} |-> FirstStation]
    /\ back = [b \in {"Mercurio", "Venus", "Marte"} |->
                  FirstStation + 72 * 86400]
    /\ \E r \in RampChoices :
           ramp = [b \in {"Mercurio", "Venus", "Marte"} |-> r]
    /\ \E k \in {0, 1} :
          /\ st_start = SampleAfterStation(st_planet)
                            + (k - 1) * ScanInterval(st_planet)
          /\ st_end = SampleAfterStation(st_planet)
                          + (k + 1) * ScanInterval(st_planet)
    /\ st_sweep = "coarse"
    /\ st_state = <<None, Infinity, st_start>>
    /\ st_last = st_end
    /\ st_interval = RoundHalfEven(RetrogradeSearchInterval(st_planet), 4)
    /\ st_result = None

\* one iteration of the running sweep
StIterate ==
    /\ st_sweep \in {"coarse", "refine", "final"}
    /\ st_state[3] <= st_last
    /\ st_state' = SweepStep(st_planet, st_state, st_interval)
    /\ UNCHANGED <<st_planet, st_start, st_end, st_sweep, st_last,
                   st_interval, st_result>>
    /\ UNCHANGED <<oracleVars, notSt>>

\* the end of a sweep: lines 64-73 after the first, lines 86-92 after the
\* second, line 103 after the third
StNextSweep ==
    /\ st_sweep \in {"coarse", "refine", "final"}
    /\ ~(st_state[3] <= st_last)
    /\ CASE st_sweep = "coarse" /\ ~st_state[1].found ->
               /\ st_sweep' = "done"
               /\ st_result' = None
               /\ UNCHANGED <<st_state, st_last, st_interval>>
         [] st_sweep = "coarse" /\ st_state[1].found ->
               /\ st_sweep' = "refine"
               /\ st_state' = <<st_state[1], Infinity,
                                st_state[1].date - st_interval>>
               /\ st_last' = st_state[1].date + st_interval
               /\ st_interval' = RoundHalfEven(st_interval, 6)
               /\ UNCHANGED st_result
         [] st_sweep = "refine" ->
               /\ st_sweep' = "final"
               /\ st_state' = <<st_state[1], st_state[2],
                                st_state[1].date - Minutes(30)>>
               /\ st_last' = st_state[1].date + Minutes(30)
               /\ st_interval' = Seconds(30)
               /\ UNCHANGED st_result
         [] st_sweep = "final" ->
               /\ st_sweep' = "done"
               /\ st_result' = st_state[1]
               /\ UNCHANGED <<st_state, st_last, st_interval>>
    /\ UNCHANGED <<st_planet, st_start, st_end>>
    /\ UNCHANGED <<oracleVars, notSt>>

StNext == StIterate \/ StNextSweep

InitSt ==
    StInit /\ FETIdle /\ AspIdle /\ RetIdle /\ EclIdle /\ WrapIdle /\ BisIdle /\ IngIdle /\ GpIdle /\ GeoIdle /\ MainIdle /\ MoonIdle /\ NdIdle /\ HouseIdle

SpecSt == InitSt /\ [][StNext]_vars

\* the stepwise call returns what FindStationPoint computes
StAgrees ==
    st_sweep = "done" =>
        st_result = FindStationPoint(st_start, st_end, st_planet, TRUE)

(***************************************************************************)
(* NodeCalculator, src/calculators/nodes.py                                *)
(***************************************************************************)
\* _calculate_node_position (lines 12-24): the fields the calculator uses
CalculateNodePosition(date) ==
    [found |-> TRUE, date |-> date,
     longitude |-> Position("Nodo", JulianSecond(date))]

\* the node's motion from second 0: retrograde or direct, a tenth of a
\* degree per day, reaching a sign boundary 2 days 7 h 12 min later
NodeMotionChoices ==
    LET never == 3600 * 24 * (NodeDays + 10)
        reach == 2 * 86400 + 7 * 3600 + 12 * 60
    IN  {[lon0 |-> 60 * UnitsPerDegree + reach, turn |-> 0, back |-> never],
         [lon0 |-> 60 * UnitsPerDegree - reach, turn |-> never,
          back |-> never],
         [lon0 |-> reach, turn |-> 0, back |-> never],
         [lon0 |-> Circle - reach, turn |-> never, back |-> never]}

\* a call calculate_node_ingresses(start_date, end_date), lines 73-76
NdInit ==
    /\ \E m \in NodeMotionChoices :
          /\ lon0 = [b \in {"Nodo"} |-> m.lon0]
          /\ turn = [b \in {"Nodo"} |-> m.turn]
          /\ back = [b \in {"Nodo"} |-> m.back]
    /\ rate = [b \in {"Nodo"} |-> 1]
    /\ ramp = [b \in {"Nodo"} |-> 0]
    /\ nd_start = Days(1)
    /\ nd_end \in {Days(1 + NodeDays), Days(1 + NodeDays) - Hours(6)}
    /\ nd_current = nd_start
    /\ nd_prev_sign = None
    /\ nd_events = <<>>
    /\ ndpc = "scan"
    /\ nx_from = 0 /\ nx_to = 0 /\ nx_current = 0 /\ nx_end = 0
    /\ nx_best = None /\ nx_min = 0

\* lines 110-111 with the scan instant left where it is
NdAdvanceStay ==
    /\ nd_prev_sign' =
           [found |-> TRUE,
            sign |-> SignIndex(CalculateNodePosition(nd_current).longitude)]
    /\ nd_current' = nd_current
    /\ ndpc' = "scan"

\* lines 110-111 after the sample at nd_current has been dealt with
NdAdvance ==
    /\ nd_prev_sign' =
           [found |-> TRUE,
            sign |-> SignIndex(CalculateNodePosition(nd_current).longitude)]
    /\ nd_current' = nd_current + Hours(12)
    /\ ndpc' = "scan"

\* lines 82-97: one test of "while current_date < end_date"; a sample
\* without a change of sign goes on to lines 110-111, a change of sign
\* enters _find_exact_ingress (lines 30-32), and the end of the range
\* returns (line 113)
NdScan ==
    /\ ndpc = "scan"
    /\ IF nd_current < nd_end
       THEN \E current_sign \in
                   {SignIndex(CalculateNodePosition(nd_current).longitude)} :
               IF nd_prev_sign.found /\ current_sign # nd_prev_sign.sign
               THEN /\ ndpc' = "hour"
                    /\ nx_from' = nd_prev_sign.sign
                    /\ nx_to' = current_sign
                    /\ nx_current' = nd_current - Days(1)
                    /\ nx_end' = nd_current + Days(1)
                    /\ UNCHANGED <<nd_current, nd_prev_sign, nx_best, nx_min>>
               ELSE /\ NdAdvance
                    /\ UNCHANGED <<nx_from, nx_to, nx_current, nx_end,
                                   nx_best, nx_min>>
       ELSE /\ ndpc' = "done"
            /\ UNCHANGED <<nd_current, nd_prev_sign, nx_from, nx_to,
                           nx_current, nx_end, nx_best, nx_min>>
    /\ UNCHANGED <<nd_start, nd_end, nd_events>>
    /\ UNCHANGED <<oracleVars, notNd>>

\* lines 34-55: one test of the hourly loop; a sample outside from_sign
\* sets up the sweep by minutes, the end of the bracket returns None
\* (lines 44-45), for which the caller records nothing (line 99)
NdHour ==
    /\ ndpc = "hour"
    /\ IF nx_current <= nx_end
       THEN IF SignIndex(CalculateNodePosition(nx_current).longitude)
                  # nx_from
            THEN /\ ndpc' = "minute"
                 /\ nx_current' = nx_current - Hours(1)
                 /\ nx_end' = nx_current
                 /\ nx_best' = None
                 /\ nx_min' = Infinity
                 /\ UNCHANGED <<nd_current, nd_prev_sign>>
            ELSE /\ nx_current' = nx_current + Hours(1)
                 /\ UNCHANGED <<ndpc, nx_end, nx_best, nx_min, nd_current,
                                nd_prev_sign>>
       ELSE /\ NdAdvance
            /\ UNCHANGED <<nx_current, nx_end, nx_best, nx_min>>
    /\ UNCHANGED <<nd_start, nd_end, nd_events, nx_from, nx_to>>
    /\ UNCHANGED <<oracleVars, notNd>>

\* lines 57-69 and 99-111: one test of the loop by minutes; its end returns
\* best_pos, the caller appends the event and goes on with the scan
NdMinute ==
    /\ ndpc = "minute"
    /\ IF nx_current <= nx_end
       THEN /\ \E pos \in {CalculateNodePosition(nx_current)} :
               \E distance \in
                      {Abs(pos.longitude - nx_to * 30 * UnitsPerDegree)} :
                  IF distance < nx_min
                  THEN nx_min' = distance /\ nx_best' = pos
                  ELSE UNCHANGED <<nx_min, nx_best>>
            /\ nx_current' = nx_current + Minutes(1)
            /\ UNCHANGED <<ndpc, nd_current, nd_prev_sign, nd_events>>
       ELSE /\ nd_events' =
                   IF nx_best.found
                   THEN Append(nd_events,
                               [fecha_utc |-> nx_best.date,
                                tipo_evento |-> "INGRESO_SIGNO",
                                signo |-> nx_to])
                   ELSE nd_events
            /\ NdAdvance
            /\ UNCHANGED <<nx_current, nx_min, nx_best>>
    /\ UNCHANGED <<nd_start, nd_end, nx_from, nx_to, nx_end>>
    /\ UNCHANGED <<oracleVars, notNd>>

NdNext == NdScan \/ NdHour \/ NdMinute

InitNd ==
    NdInit /\ FETIdle /\ AspIdle /\ RetIdle /\ EclIdle /\ WrapIdle /\ BisIdle /\ IngIdle /\ GpIdle /\ GeoIdle /\ MainIdle /\ MoonIdle /\ StIdle /\ HouseIdle

SpecNd == InitNd /\ [][NdNext]_vars

(***************************************************************************)
(* Every search and every scan of the program, each run on its own         *)
(***************************************************************************)
InitSearch ==
    \/ InitFET
    \/ InitBis
    \/ InitSt
    \/ InitNd
    \/ InitIng
    \/ InitRetro
    \/ InitAspects
    \/ InitMoon

SearchNext ==
    \/ FETNext
    \/ BisNext
    \/ StNext
    \/ NdNext
    \/ IngNext
    \/ RetNext
    \/ AspNext
    \/ MoonNext

SpecSearch == InitSearch /\ [][SearchNext]_vars

\* the iteration a bracketing loop is about to run makes its bracket
\* strictly narrower: find_exact_time with a tolerance of at least 1
\* second, and the ingress bisection
BracketsNarrow ==
    /\ (fpc = "loop" /\ end_date - start_date > tolerance
           /\ tolerance >= Seconds(1)) =>
          \A br \in {Narrow(TableFunc(cond), start_date, end_date)} :
              /\ start_date <= br[1]
              /\ br[2] <= end_date
              /\ br[2] - br[1] < end_date - start_date
    /\ (bpc = "loop" /\ bis_end - bis_start > IngressTolerance) =>
          /\ bis_start < MidDate(bis_start, bis_end)
          /\ MidDate(bis_start, bis_end) < bis_end

\* the iteration a sweep of the station finder is about to run moves its
\* current instant forwards
SweepsAdvance ==
    (st_sweep \in {"coarse", "refine", "final"} /\ st_state[3] <= st_last)
        => SweepStep(st_planet, st_state, st_interval)[3] > st_state[3]

\* a step inside a loop moves the loop's instant forwards, or narrows its
\* bracket
LoopStep ==
    /\ (fpc = "loop" /\ fpc' = "loop" /\ tolerance >= Seconds(1)) =>
          end_date' - start_date' < end_date - start_date
    /\ (bpc = "loop" /\ bpc' = "loop") =>
          bis_end' - bis_start' < bis_end - bis_start
    /\ (st_sweep \in {"coarse", "refine", "final"} /\ st_sweep' = st_sweep)
          => st_state'[3] > st_state[3]
    /\ (ndpc \in {"hour", "minute"} /\ ndpc' = ndpc) =>
          nx_current' > nx_current
    /\ (ndpc \in {"scan", "hour", "minute"} /\ ndpc' = "scan") =>
          nd_current' > nd_current
    /\ (ipc = "scan" /\ ipc' = "scan" /\ ing_idx' = ing_idx) =>
          ing_current' > ing_current
    /\ (rpc = "scan" /\ rpc' = "scan" /\ planet_idx' = planet_idx) =>
          ret_current' > ret_current
    /\ (apc = "scan" /\ apc' = "scan" /\ pair_idx' = pair_idx) =>
          current_date' > current_date
    /\ (lp_loop \in {"full", "new"} /\ lp_loop' = lp_loop
           /\ lp_date' # lp_date) => lp_date' > lp_date
    /\ (ec_loop \in {"solar", "lunar"} /\ ec_loop' = ec_loop
           /\ ec_date' # ec_date) => ec_date' > ec_date

\* C17: every search terminates for a bounded range and a tolerance of at
\* least 1 second: each iteration of the find_exact_time narrowing loop and
\* of the ingress bisection strictly reduces the bracket width, and each
\* iteration of the station finder's three sweeps, of the nodal hour and
\* minute sweeps and of every detector's scan loop strictly advances the
\* current instant towards its end bound.
C17_Terminates == []BracketsNarrow /\ []SweepsAdvance /\ [][LoopStep]_vars

\* find_exact_time with a tolerance of at least 1 second, its bracket
\* narrowed and still wider than the tolerance
C17_Witness ==
    /\ fpc = "loop"
    /\ tolerance >= Seconds(1)
    /\ end_date - start_date < end0 - start0
    /\ end_date - start_date > tolerance

(***************************************************************************)
(* The house lookups: EclipseAnalyzer._get_activated_house,                *)
(* src/calculators/eclipse_analysis.py:55-108, and                         *)
(* LunarCalendarCalculator._determinar_casa,                               *)
(* src/calculators/lunar_calendar.py:26-56.  Longitudes in whole degrees.  *)
(***************************************************************************)
\* line 66 left out
NormalizeNever(lon) == lon
\* eclipse_lon % 360 (line 66): Python's modulo, in [0, 360) for every sign
\* of eclipse_lon
NormalizeLongitude(lon) == lon % 360

\* lines 69-75 (lunar_calendar.py:39-40): the pairs <<house, cusp>> in
\* ascending order of cusp; the sort is stable, so houses of equal cusp stay
\* in ascending order of house
SortedCusps(houses) ==
    LET before(i, j) ==
            houses[i] < houses[j] \/ (houses[i] = houses[j] /\ i < j)
        rank(i) == 1 + Cardinality({j \in DOMAIN houses : before(j, i)})
    IN  [k \in 1..12 |->
            Only({<<i, houses[i]>> : i \in {j \in DOMAIN houses : rank(j) = k}})]

\* lines 83-92 (lunar_calendar.py:48-52): the test of one arc
ArcContains(current_pos, next_pos, lon) ==
    IF next_pos < current_pos
    THEN lon >= current_pos \/ lon < next_pos
    ELSE current_pos <= lon /\ lon < next_pos

\* the indices i of the loop "for i in range(len(house_positions))" whose
\* arc passes the test, counted from 1
PassingArcs(hp, lon) ==
    {i \in 1..12 : ArcContains(hp[i][2], hp[(i % 12) + 1][2], lon)}

\* _get_activated_house (lines 65-108): the first arc that passes the test,
\* or the last house (lines 100-108)
GetActivatedHouse(houses, eclipse_lon) ==
    LET lon == NormalizeLongitude(eclipse_lon)
        hp == SortedCusps(houses)
        hits == PassingArcs(hp, lon)
        i == IF hits = {} THEN 12
             ELSE CHOOSE k \in hits : \A j \in hits : k <= j
    IN  [numero |-> hp[i][1], cuspide |-> hp[i][2],
         siguiente_cuspide |-> hp[(i % 12) + 1][2]]

\* _determinar_casa (lines 36-56): the first arc that passes the test with
\* longitud as it was passed, or house 1 (line 56)
DeterminarCasa(houses, longitud) ==
    LET cusps == SortedCusps(houses)
        hits == PassingArcs(cusps, longitud)
    IN  IF hits = {} THEN 1
        ELSE cusps[CHOOSE k \in hits : \A j \in hits : k <= j][1]

\* cusps every 30 degrees from the ascendant asc
EqualHouses(asc) == [i \in 1..12 |-> (asc + 30 * (i - 1)) % 360]

\* the natal charts of a model run: equal houses from 0 (the chart of
\* src/tests/test_eclipse_analysis.py:21-34), from 15 and from 359 degrees,
\* houses of unequal width, and cusps that do not follow the order of the
\* houses
CuspChoices ==
    {EqualHouses(0), EqualHouses(15), EqualHouses(359),
     <<100, 125, 155, 190, 225, 255, 280, 305, 335, 10, 45, 75>>,
     <<200, 7, 300, 90, 350, 45, 120, 1, 260, 180, 30, 150>>}

\* the longitudes looked up: on each cusp and a degree either side of it,
\* as they are and MaxWraps turns of the circle lower and higher, and 45
LonChoices(houses) ==
    {45} \cup {houses[i] + d + 360 * k :
                  i \in 1..12, d \in {-1, 0, 1}, k \in (-MaxWraps)..MaxWraps}

HouseInit ==
    /\ house_cusps \in CuspChoices
    /\ house_lon \in LonChoices(house_cusps)
    /\ house_out = <<>>

\* analyze_eclipse_impact, line 48
HouseActivated ==
    /\ house_cusps # <<>>
    /\ Len(house_out) = 0
    /\ house_out' = <<GetActivatedHouse(house_cusps, house_lon)>>
    /\ UNCHANGED <<house_cusps, house_lon>>
    /\ UNCHANGED notHouse

\* calcular_eventos_lunares, lunar_calendar.py:85
HouseDeterminar ==
    /\ Len(house_out) = 1
    /\ house_out' = Append(house_out, DeterminarCasa(house_cusps, house_lon))
    /\ UNCHANGED <<house_cusps, house_lon>>
    /\ UNCHANGED notHouse

HouseNext == HouseActivated \/ HouseDeterminar

InitHouse ==
    HouseInit /\ FETIdle /\ OracleIdle /\ AspIdle /\ RetIdle /\ EclIdle /\ WrapIdle /\ BisIdle /\ IngIdle /\ GpIdle /\ GeoIdle /\ MainIdle /\ MoonIdle /\ StIdle /\ NdIdle

SpecHouse == InitHouse /\ [][HouseNext]_vars

\* the cusp that follows cusp c in ascending order, cyclically
NextCusp(houses, c) ==
    LET higher == {houses[i] : i \in DOMAIN houses} \cap ((c + 1)..359)
        all == {houses[i] : i \in DOMAIN houses}
    IN  IF higher # {} THEN CHOOSE n \in higher : \A m \in higher : n <= m
        ELSE CHOOSE n \in all : \A m \in all : n <= m

\* x, in [0, 360), lies in the half-open arc from the cusp of house i to the
\* next cusp
InHouse(houses, i, x) ==
    LET c == houses[i]
        n == NextCusp(houses, c)
    IN  IF c < n THEN c <= x /\ x < n ELSE x >= c \/ x < n

\* the first two sentences of C21: the house returned is the one house whose
\* arc contains the longitude modulo 360, with its cusp and the next cusp,
\* and the lookup of 45 degrees in equal houses from 0 returns house 2 with
\* cusp 30 and next cusp 60
LookupRight ==
    Len(house_out) >= 1 =>
        LET r == house_out[1]
            x == house_lon % 360
        IN  /\ InHouse(house_cusps, r.numero, x)
            /\ \A j \in 1..12 : InHouse(house_cusps, j, x) => j = r.numero
            /\ r.cuspide = house_cusps[r.numero]
            /\ r.siguiente_cuspide = NextCusp(house_cusps, r.cuspide)
            /\ (house_cusps = EqualHouses(0) /\ house_lon = 45) =>
                   r = [numero |-> 2, cuspide |-> 30, siguiente_cuspide |-> 60]

C22_StationInBracket ==
    (st_sweep = "done" /\ st_result.found) =>
        /\ st_start <= st_result.date
        /\ st_result.date <= st_end

(***************************************************************************)
(* Claims about the station guard of calculate_retrogrades                 *)
(***************************************************************************)
\* C23: within one call of calculate_retrogrades, any two station events
\* emitted for the same body have instants at least 30 days apart when the
\* body is Mercurio and at least 60 days apart for every other body.
C23_StationsApart ==
    \A i, j \in 1..Len(ret_events) :
        (i < j /\ ret_events[i].planeta = ret_events[j].planeta) =>
            Abs(ret_events[j].fecha_utc - ret_events[i].fecha_utc)
                >= MinTime(ret_events[i].planeta)

(***************************************************************************)
(* Claims about the nodal ingress detector                                 *)
(***************************************************************************)
\* the node's sign index at second sec
NodeSignAt(sec) == SignIndex(Position("Nodo", sec))

\* the node's sign index changes within one minute of instant t: the second
\* at which the index is first the new one is at most 60 seconds before or
\* after t
ChangesWithinMinute(t) ==
    NodeSignAt(JulianSecond(t) - 61) # NodeSignAt(JulianSecond(t) + 60)

\* C24: the instant reported for a nodal sign change is within one minute
\* of the instant the node's sign index changes, for a node moving
\* retrograde or direct, the change across 0/360 degrees included.
C24_NodalIngress ==
    \A i \in 1..Len(nd_events) : ChangesWithinMinute(nd_events[i].fecha_utc)

\* the same for the node in direct motion only
DirectIngressExact ==
    turn["Nodo"] > 0 =>
        \A i \in 1..Len(nd_events) : ChangesWithinMinute(nd_events[i].fecha_utc)

(***************************************************************************)
(* Claims about the elongation of the lunar classifier                     *)
(***************************************************************************)
\* C25: the elongation the lunar classifier compares with 175 degrees is
\* the shorter-arc angular separation between the Moon and the Sun, and it
\* lies in [0, 180] degrees.
C25_Elongation ==
    (epc = "done" /\ ~is_solar) =>
        /\ Elong(sun_lon, moon_lon) = ShorterArc(moon_lon, sun_lon)
        /\ 0 <= Elong(sun_lon, moon_lon)
        /\ Elong(sun_lon, moon_lon) <= 180 * UnitsPerDegree

(***************************************************************************)
(* Claims about the tracked minimum of the searches                        *)
(***************************************************************************)
\* the tracked minimum |speed| of _find_station_point at the end of its
\* refinement sweep is no greater than at the end of its coarse sweep, and
\* at the end of its final sweep no greater than at the end of its
\* refinement sweep; st_state[2] is min_speed, which the final sweep starts
\* from the refinement's and only lowers
StagesMonotone ==
    /\ st_sweep \in {"final", "done"} =>
          \A coarse \in {Coarse(st_planet, st_start, st_end)} :
              coarse[1].found => st_state[2] <= coarse[2]
    /\ st_sweep = "done" =>
          \A refined \in
                 {Refine(st_planet, Coarse(st_planet, st_start, st_end),
                         RoundHalfEven(RetrogradeSearchInterval(st_planet),
                                       4))} :
              st_state[2] <= refined[2]

\* C26: in find_exact_time the tracked minimum never increases from one
\* iteration or refinement step to the next, and in _find_station_point the
\* minimum |speed| at the end of the refinement sweep is no greater than at
\* the end of the coarse sweep, and at the end of the final sweep no greater
\* than at the end of the refinement sweep.
C26_Monotone ==
    /\ [][fpc = "loop" => min_value' <= min_value]_vars
    /\ [][(st_sweep = "final" /\ st_sweep' \in {"final", "done"})
             => st_state'[2] <= st_state[2]]_vars
    /\ []StagesMonotone

\* C26 witness: a station search that has run its three sweeps, the final
\* one ending on a smaller |speed| than the refinement, and the refinement
\* on a smaller one than the coarse sweep
C26_Witness ==
    /\ st_sweep = "done"
    /\ \E refined \in
              {Refine(st_planet, Coarse(st_planet, st_start, st_end),
                      RoundHalfEven(RetrogradeSearchInterval(st_planet), 4))} :
          /\ st_state[2] < refined[2]
          /\ refined[2] < Coarse(st_planet, st_start, st_end)[2]

(***************************************************************************)
(* Claims about the evaluations of find_exact_time                         *)
(***************************************************************************)
\* C27: find_exact_time never calls the condition function while the
\* bracket it is working on has start equal to end, a call with start_date
\* equal to end_date included.
C27_NoDegenerateEvaluation == ~degenerate

\* C30: the minimum value find_exact_time returns is the condition function
\* at the returned instant and is no greater than the condition function at
\* any instant it was called with during the call, the caller's end_date
\* included.
C30_MinimumOfEvaluated ==
    fpc = "done" =>
        /\ min_value = CondAt(TableFunc(cond), best_date)
        /\ \A t \in evaluated : min_value <= CondAt(TableFunc(cond), t)

(***************************************************************************)
(* NodeCalculator._find_exact_ingress called for any window of the scan    *)
(***************************************************************************)
\* the brackets calculate_node_ingresses hands over at line 92 always hold
\* an hourly sample outside from_sign (the scan sample itself, 24 hours
\* after the bracket start), so within the detector the hourly sweep never
\* runs to the end of its bracket
SweepFindsSample == ndpc = "hour" => nx_current <= nx_end

\* _find_exact_ingress(current_date - 1 day, current_date + 1 day,
\* prev_sign, to_sign) called as line 92 does, at any scan sample after the
\* first, whether or not the sign changed there, with no event or one
\* event collected so far
NxInit ==
    /\ \E m \in NodeMotionChoices :
          /\ lon0 = [b \in {"Nodo"} |-> m.lon0]
          /\ turn = [b \in {"Nodo"} |-> m.turn]
          /\ back = [b \in {"Nodo"} |-> m.back]
    /\ rate = [b \in {"Nodo"} |-> 1]
    /\ ramp = [b \in {"Nodo"} |-> 0]
    /\ nd_start = Days(1)
    /\ nd_end = Days(1 + NodeDays)
    /\ \E k \in 1..(2 * NodeDays - 1) : nd_current = nd_start + k * Hours(12)
    /\ nd_prev_sign =
           [found |-> TRUE,
            sign |-> SignIndex(CalculateNodePosition(
                                   nd_current - Hours(12)).longitude)]
    /\ nd_events \in
           {<<>>, <<[fecha_utc |-> nd_start, tipo_evento |-> "INGRESO_SIGNO",
                     signo |-> nd_prev_sign.sign]>>}
    /\ ndpc = "hour"
    /\ nx_from = nd_prev_sign.sign
    /\ nx_to \in {(nx_from + 1) % 12, (nx_from + 11) % 12}
    /\ nx_current = nd_current - Days(1)
    /\ nx_end = nd_current + Days(1)
    /\ nx_best = None
    /\ nx_min = 0

InitNx ==
    NxInit /\ FETIdle /\ AspIdle /\ RetIdle /\ EclIdle /\ WrapIdle /\ BisIdle /\ IngIdle /\ GpIdle /\ GeoIdle /\ MainIdle /\ MoonIdle /\ StIdle /\ HouseIdle

SpecNx == InitNx /\ [][NdNext]_vars

\* the hourly samples of the bracket around scan sample current: every hour
\* from a day before it to a day after it
HourlySamples(current) == {current - Days(1) + k * Hours(1) : k \in 0..48}

\* the hourly sweep has run past the end of its bracket: line 44 is reached
\* with transition_found false and line 45 returns None
SweepExhausted == ndpc = "hour" /\ ~(nx_current <= nx_end)

\* the search ends without a result exactly when no hourly sample of the
\* bracket is outside from_sign
AbsentWhenNoSample ==
    /\ SweepExhausted =>
          \A t \in HourlySamples(nd_current) :
              SignIndex(CalculateNodePosition(t).longitude) = nx_from
    /\ ndpc = "minute" =>
          \E t \in HourlySamples(nd_current) :
              SignIndex(CalculateNodePosition(t).longitude) # nx_from

\* after an absent result the caller appends nothing and goes on with the
\* next 12-hour sample
AbsenceSkipped ==
    SweepExhausted =>
        /\ nd_events' = nd_events
        /\ nd_current' = nd_current + Hours(12)
        /\ ndpc' = "scan"

\* C28: when no hourly sample of the bracket handed to the nodal ingress
\* search has a sign index different from from_sign, the search returns
\* None, and calculate_node_ingresses then emits no event for that window,
\* leaves the events already collected unchanged and continues scanning
\* from the next 12-hour sample.
C28_AbsenceSkipped == []AbsentWhenNoSample /\ [][AbsenceSkipped]_vars

\* C28 witness: the search ran its hourly sweep to the end of the bracket
\* and returned None; the scan is at the next 12-hour sample with the one
\* event collected before
C28_Witness ==
    /\ ndpc = "scan"
    /\ nx_current > nx_end
    /\ nx_end = nd_current + Hours(12)
    /\ ~nx_best.found
    /\ Len(nd_events) = 1

(***************************************************************************)
(* The instants of the aspect events against the requested range           *)
(***************************************************************************)
InRequestedRange(evs) ==
    \A i \in 1..Len(evs) :
        asp_start <= evs[i].fecha_utc /\ evs[i].fecha_utc < asp_end

\* C29: every event of calculate_aspects(start_date, end_date), collected
\* or returned, has its instant inside the requested range: start_date <=
\* instant < end_date, also when it was found from a scan sample taken
\* shortly before end_date.
C29_EventsInRange ==
    InRequestedRange(events) /\ InRequestedRange(asp_result)

\* no event lies before start_date: each search begins at its scan sample
EventsNotBeforeStart ==
    \A i \in 1..Len(events) : asp_start <= events[i].fecha_utc

====
